---- MODULE Spec2Model ----
(***************************************************************************)
(* A model of the contact-form automation pipeline (kenta-crv/autosend).   *)
(*                                                                         *)
(* Strings are sequences of tokens: a token is a run of characters that    *)
(* the code treats as a unit (a space, a parenthesis, a scheme prefix, a   *)
(* host name, a path).  null/undefined is the one-token sequence Null.     *)
(***************************************************************************)
EXTENDS Integers, Sequences, FiniteSets, TLC

\* ------------------------------------------------------------------ bounds
MaxId == 2      \* Target ids are 1..MaxId
MaxRuns == 2    \* processCompany invocations in one behaviour
MaxBatch == 2   \* companies handed to one processCompanies call
MaxSignals == 2 \* shutdown signals one worker process receives
MaxLen == 5     \* tokens of a string handed to normalizeUrl
MaxFill == 26   \* plain text fields a form holds besides its leading ones
MaxForms == 3   \* forms of one page
MaxSaved == 3   \* saveResult calls on one ResultsManager
MaxMail == 3    \* messages the mailbox comes to hold
MaxAnchors == 3 \* links of a homepage
MaxControls == 3 \* controls of a contact page
MaxBoxes == 3    \* checkboxes and radio buttons of a contact page
MaxButtons == 2  \* buttons of a contact page
MaxJobs == 3     \* processJob calls in flight at a time (QUEUE_CONCURRENCY)
MaxWorkers == 2  \* worker processes that share the tracker file
MaxCalls == 3    \* saveProcessedCompany calls in one behaviour

\* ----------------------------------------------------------------- strings
Null == <<"<null>">>
SP == " "
LP == "("
RP == ")"
UU == "__"
HTTPS == "https://"
HTTP == "http://"

\* JavaScript truthiness of a string-or-null value: null, undefined and ""
\* are falsy, every other string (a blank one included) is truthy.
IsFalsy(s) == s = Null \/ s = <<>>

RECURSIVE StripLeft(_, _)
StripLeft(s, T) ==
  IF s # <<>> /\ Head(s) \in T THEN StripLeft(Tail(s), T) ELSE s

RECURSIVE StripRight(_, _)
StripRight(s, T) ==
  IF s # <<>> /\ s[Len(s)] \in T
  THEN StripRight(SubSeq(s, 1, Len(s) - 1), T)
  ELSE s

\* String.prototype.trim
Trim(s) == StripRight(StripLeft(s, {SP}), {SP})

\* s.replace(/^__+|__+$/g, '')
StripUnderscores(s) == StripRight(StripLeft(s, {UU}), {UU})

\* The matches of /\(([^)]+)\)/ in s, as the positions of their "(":
\* a "(" followed by at least one token other than ")" and then a ")".
ParenStarts(s) ==
  { i \in 1..Len(s) :
      /\ s[i] = LP
      /\ \E j \in (i + 2)..Len(s) :
           /\ s[j] = RP
           /\ \A k \in (i + 1)..(j - 1) : s[k] # RP }

HasParen(s) == ParenStarts(s) # {}

\* match[1] of the leftmost match
ParenGroup(s) ==
  LET i == CHOOSE a \in ParenStarts(s) : \A b \in ParenStarts(s) : a <= b
      j == CHOOSE a \in (i + 2)..Len(s) :
             /\ s[a] = RP
             /\ \A k \in (i + 1)..(a - 1) : s[k] # RP
  IN SubSeq(s, i + 1, j - 1)

StartsWithScheme(s) == s # <<>> /\ s[1] \in {HTTP, HTTPS}

IsPathToken(t) == t \in {"/", "//", "/contact", "/contact/", "/form"}

\* The tokens of s up to the first "/" or ":" of the string
RECURSIVE HostPart(_)
HostPart(s) ==
  IF s = <<>> \/ IsPathToken(Head(s)) \/ Head(s) \in {HTTP, HTTPS} THEN <<>>
  ELSE <<Head(s)>> \o HostPart(Tail(s))

\* The URL parser skips the slashes that follow "https://", so that what
\* comes after them is the host.
RECURSIVE AfterSlashes(_)
AfterSlashes(s) ==
  IF s = <<>> THEN s
  ELSE CASE Head(s) \in {"/", "//"} -> AfterSlashes(Tail(s))
         [] Head(s) = "/contact" -> <<"contact">> \o Tail(s)
         [] Head(s) = "/form" -> <<"form">> \o Tail(s)
         [] Head(s) = "/contact/" -> <<"contact", "/">> \o Tail(s)
         [] OTHER -> s

\* "https://" inside the host: "https" ends the host, ":" is an empty port
\* and "//" starts the path.
SchemeName(t) == IF t = HTTPS THEN "https" ELSE "http"

\* The URL parser lower-cases the host.
LowerToken(t) ==
  CASE t = "ACME.test" -> "acme.test"
    [] t = "Acme" -> "acme"
    [] OTHER -> t

\* The URL parser percent-encodes a space of the path.
EncodeToken(t) == IF t = SP THEN "%20" ELSE t

\* What stands for the TypeError the URL constructor throws
InvalidUrl == <<"<TypeError: Invalid URL>">>

\* new URL(raw).href, InvalidUrl when the constructor throws: surrounding
\* spaces are dropped, the string needs a scheme and a non-empty host free
\* of spaces; the host is lower-cased, an empty path becomes "/".
NewUrlHref(raw) ==
  LET s == Trim(raw) IN
  IF ~StartsWithScheme(s) THEN InvalidUrl
  ELSE
    LET rest == AfterSlashes(Tail(s))
        head == HostPart(rest)
        after == SubSeq(rest, Len(head) + 1, Len(rest))
        port == after # <<>> /\ Head(after) \in {HTTP, HTTPS}
        host == IF port THEN head \o <<SchemeName(Head(after))>> ELSE head
        path == IF port THEN <<"//">> \o Tail(after) ELSE after
    IN IF host = <<>> \/ \E i \in 1..Len(host) : host[i] = SP
       THEN InvalidUrl
       ELSE <<s[1]>>
            \o [i \in 1..Len(host) |-> LowerToken(host[i])]
            \o (IF path = <<>> THEN <<"/">>
                ELSE [i \in 1..Len(path) |-> EncodeToken(path[i])])

\* new URL(s).origin of an href
UrlOrigin(href) == <<href[1]>> \o HostPart(Tail(href))

\* normalizeUrl putting 'https://' in front whatever the string starts with
normalizeUrlAlwaysPrefixes(url) ==
  IF IsFalsy(url) THEN Null
  ELSE
    LET t == Trim(url)
        m == IF HasParen(t) THEN Trim(ParenGroup(t)) ELSE t
        u == <<HTTPS>> \o m
    IN IF NewUrlHref(u) = InvalidUrl THEN Null ELSE NewUrlHref(u)

\* normalizeUrl without its try and catch
normalizeUrlNoCatch(url) ==
  IF IsFalsy(url) THEN Null
  ELSE
    LET t == Trim(url)
        m == IF HasParen(t) THEN Trim(ParenGroup(t)) ELSE t
        u == IF StartsWithScheme(m) THEN m ELSE <<HTTPS>> \o m
    IN NewUrlHref(u)

\* UrlDetector.normalizeUrl
normalizeUrl(url) ==
  IF IsFalsy(url) THEN Null
  ELSE
    LET t == Trim(url)
        m == IF HasParen(t) THEN Trim(ParenGroup(t)) ELSE t
        u == IF StartsWithScheme(m) THEN m ELSE <<HTTPS>> \o m
    IN IF NewUrlHref(u) = InvalidUrl THEN Null ELSE NewUrlHref(u)

\* --------------------------------------------------------------- csvLoader
\* CsvLoader.isValidUrl
isValidUrl(urlString) ==
  IF IsFalsy(urlString) \/ Trim(urlString) = <<>> THEN FALSE
  ELSE NewUrlHref(StripUnderscores(Trim(urlString))) # InvalidUrl

\* CsvLoader.cleanUrl
cleanUrl(urlString) ==
  IF IsFalsy(urlString) THEN Null
  ELSE LET cleaned == StripUnderscores(Trim(urlString))
       IN IF isValidUrl(cleaned) THEN cleaned ELSE Null

BLACKLISTED_DOMAINS == {"jp.indeed.com"}

\* Blacklist.isBlacklisted(url).isBlacklisted
isBlacklisted(url) ==
  IF IsFalsy(url) \/ NewUrlHref(url) = InvalidUrl THEN FALSE
  ELSE \E i \in 1..Len(HostPart(Tail(NewUrlHref(url)))) :
         HostPart(Tail(NewUrlHref(url)))[i] \in BLACKLISTED_DOMAINS

Skipped == [skipped |-> TRUE]

\* The 'data' handler of CsvLoader.loadFromCsv: the company built from one
\* row, or Skipped when the row is dropped.
loadFromCsv(row) ==
  IF row.id = 0 \/ row.company = "" THEN Skipped
  ELSE
    LET url2 == cleanUrl(row.url_2)
        contactUrl == cleanUrl(row.contact_url)
        url == cleanUrl(row.url)
        base == [ id |-> row.id, name |-> row.company, url |-> url,
                  url_2 |-> url2, contact_url |-> contactUrl,
                  homepage |-> Null,
                  contact_form_url |-> contactUrl ]
    IN IF url2 # Null
       THEN IF isBlacklisted(url2) THEN Skipped
            ELSE [base EXCEPT !.homepage = url2]
       ELSE IF contactUrl # Null
            THEN IF isBlacklisted(contactUrl) THEN Skipped
                 ELSE [base EXCEPT !.homepage = contactUrl]
            ELSE base

\* CsvLoader.validateCompany(company).valid
validateCompany(c) ==
  /\ c.id # 0
  /\ c.name # ""
  /\ ~(IsFalsy(c.homepage) /\ IsFalsy(c.contact_form_url))

\* The cells a CSV row may hold.
HomeUrl == <<HTTPS, "ACME.test">>
ContactUrl == <<HTTPS, "acme.test", "/contact">>
Ids == 1..MaxId

Rows ==
  [ id : Ids, company : {"Acme"},
    url : {<<>>, HomeUrl},
    url_2 : {<<>>, HomeUrl, <<HTTPS, "jp.indeed.com">>},
    contact_url : {<<>>, ContactUrl, <<UU, HTTPS, "acme.test", "/contact", UU>>} ]

\* The companies index.js hands on after loading and validating a CSV file.
LoadedCompanies ==
  { loadFromCsv(r) : r \in { q \in Rows : loadFromCsv(q) # Skipped
                                           /\ validateCompany(loadFromCsv(q)) } }

\* Companies written as literals (the 'test' command): url and contact_url
\* are free-form strings, the other fields are absent.
TestUrls ==
  { <<Null, Null>>,
    <<<<SP>>, Null>>,
    <<<<"acme.test">>, <<>>>>,
    <<<<"acme.test">>, <<"acme.test", "/contact">>>>,
    <<<<"acme.test">>, <<"acme", SP, "test">>>>,
    <<<<"Acme", SP, LP, "acme.test", RP>>, <<SP>>>> }

TestCompanies ==
  { [ id |-> i, name |-> "Acme", url |-> u[1], url_2 |-> Null,
      contact_url |-> u[2], homepage |-> Null, contact_form_url |-> Null ] :
      i \in Ids, u \in TestUrls }

Companies == LoadedCompanies \cup TestCompanies

\* ------------------------------------------------------------------ worker
\* processJob: the object it builds from job.data and passes to
\* processCompany; the fields it does not copy are undefined there.
processJobCompany(data) ==
  [ id |-> data.id, name |-> data.name, homepage |-> data.homepage,
    contact_form_url |-> data.contact_form_url,
    url |-> Null, url_2 |-> Null, contact_url |-> Null ]

\* ---------------------------------------------------------- the environment
\* What the browser and the visited site may answer to the pipeline.

\* browser.newPage() and the two page set-up calls that follow it
NewPageOutcomes == {"ok", "newPageThrows", "setupThrows"}

\* WebsiteDetector's answer to detectWebsite(name)
DetectedHomepage == <<HTTPS, "acme.test">>
DetectOutcomes == {Null, DetectedHomepage}

\* The message of the error page.goto(homepage) rejects with, "" when the
\* navigation answers, "status0" when it answers with no response or with
\* status 0.
TlsMessages ==
  { "net::ERR_CERT_AUTHORITY_INVALID", "net::ERR_SSL_PROTOCOL_ERROR",
    "unable to verify the first certificate" }
OtherMessages ==
  { "Navigation timeout of 15000 ms exceeded", "net::ERR_NAME_NOT_RESOLVED" }
InvalidUrlMessage == "Protocol error (Page.navigate): Invalid parameters"
GotoOutcomes(url) ==
  IF url = Null THEN {InvalidUrlMessage}
  ELSE {"", "status0"} \cup TlsMessages \cup OtherMessages

\* The link a homepage may show for its contact page
LinkedContactUrl == <<HTTPS, "acme.test", "/form">>

\* The contact page as the analyzer may find it
AnalyzeOutcomes == {"navigationFails", "noSuitableForm", "best"}

\* The contact page as the submitter may find it: whether its navigation
\* answers, whether a field could be filled, whether the page shows a
\* challenge widget, whether a submit control could be clicked, whether
\* reading the page after the click answers, whether a success signal
\* shows.  A flag the submitter never gets to is FALSE, except hasCaptcha,
\* which is a fact about the page.
SubmitEnvs ==
  { e \in [ gotoOk : BOOLEAN, fillOk : BOOLEAN, hasCaptcha : BOOLEAN,
            clickOk : BOOLEAN, contentOk : BOOLEAN, successDetected : BOOLEAN ] :
      /\ e.fillOk => e.gotoOk
      /\ e.hasCaptcha => e.gotoOk
      /\ e.clickOk => e.fillOk /\ ~e.hasCaptcha
      /\ e.contentOk => e.clickOk
      /\ e.successDetected => e.contentOk }

\* ------------------------------------------------------------------- state
VARIABLES
  pc,                 \* where processCompany stands
  mode,               \* "direct" (processCompanies) or "queue" (processJob)
  target,             \* the company as loaded, before the mode's hand-over
  company,            \* processCompany's argument
  page,               \* its local page: "null", "open" or "closed"
  searchPage,         \* searchWithPuppeteer's local page, likewise
  homepage,           \* its local homepage
  contactFormUrl,     \* its local contactFormUrl
  thrown,             \* the message of the error on its way to the catch
  probeMessage,       \* what the reachability probe answered
  stages,             \* the stages invoked so far, with analyzedUrl
  analyzedUrl,        \* the URL the analyzer was given
  marker,             \* whether the contact page shows a challenge widget
  clicked,            \* whether clickSubmitButton reported a click
  result,             \* the Result built, not yet delivered
  ret,                \* the Result delivered to the caller
  rejected,           \* whether processCompany rejected instead
  saves,              \* saveResult calls of this invocation
  results,            \* ResultsManager.results, the batch file's content
  processedCompanies, \* ProcessTracker.processedCompanies
  runs,               \* processCompany invocations so far
  browser,            \* ContactFormProcessor.browser: "null", "open", "closed"
  companies,          \* processCompanies' argument
  index,              \* its loop variable i
  batchResults,       \* its local results
  batchPc,            \* where processCompanies stands
  processor,          \* worker.js processor: "null" or "created"
  job,                \* the queue's job
  shutdownPc,         \* where each shutdown() call stands
  exitCode,           \* "running", or the code process.exit was called with
  input,              \* a string handed to normalizeUrl
  once,               \* normalizeUrl(input)
  twice,              \* normalizeUrl(once)
  form,               \* a form as extracted from the page
  categorized,        \* categorizeForm(form)
  again,              \* categorizeForm(form), called once more
  extended,           \* categorizeForm of form with one more email field
  forms,              \* analyzeForm's formData: the forms of the page
  analyzed,           \* its analyzedForms
  best,               \* its contactForm
  via,                \* the return of findBestContactForm that gave it
  batchFile,          \* the batch file ResultsManager writes
  rows,               \* result.sqlite: the contact_id of each row of results
  lastSaved,          \* the id of the last Result saveResult was given
  existsAnswer,       \* what recordExists(lastSaved) answered
  mailbox,            \* messages in the POP3 mailbox (STAT's count)
  atStart,            \* the mailbox's count when the listener started
  lastEmailCount,     \* mailTool.js lastEmailCount
  emails,             \* the emails table: the message number of each row
  pollPc,             \* where checkEmails stands
  emailCount,         \* its emailCount
  pollI,              \* its loop variable i
  finderHome,         \* findContactPage's homepage
  anchors,            \* the a[href] elements of the homepage, in document order
  finderPc,           \* where findContactPage stands
  byLinks,            \* what findByHomepageLinks returned
  probed,             \* the URLs findByDirectUrl has navigated to
  contactPage,        \* what findContactPage returned
  lastAnswer,         \* what the last of these navigations answered
  threw,              \* whether one of them threw
  dom,                \* the controls of the contact page, in document order
  cssDefined,         \* whether the runtime defines the global CSS
  fillInputs,         \* fillFormFields' inputs (formData.inputs)
  fillI,              \* the position of its loop in inputs
  fillPc,             \* where fillFormFields stands
  filled,             \* its local filled
  tried,              \* the strategies tried for the current field, with their answers
  lastTarget,         \* the control the last strategy typed into (0: none)
  written,            \* the control each counted fill typed into
  filledCount,        \* its local filledCount
  fillResults,        \* what it returned
  boxesBefore,        \* the checkboxes and radio buttons of the page before the consent step
  boxes,              \* the same controls, as they stand
  consentPc,          \* where the consent step of submitForm stands
  acceptanceThrew,    \* whether handleAcceptanceCheckboxes' evaluate threw
  clickables,         \* the buttons of the contact page, in document order
  candidateButtons,   \* formData.submitButtons: the candidate form's submit controls
  clickPc,            \* where clickSubmitButton stands
  scans,              \* the strategies it has run
  clickedEls,         \* the controls it has clicked
  clickAnswer,        \* what clickSubmitButton returned
  submitAnswer,       \* what submitForm returned
  submitUrl,          \* submitForm's url: the contact URL it was given
  preUrl,             \* the URL of the page once goto(url) has settled
  finalUrl,           \* page.url() after the click and the wait
  successPhrase,      \* whether the page content holds one of successKeywords
  outcomePc,          \* where the outcome detection of submitForm stands
  detected,           \* what detectSuccessResponse returned
  sharedProcessor,    \* worker.js processor, as concurrent jobs see it: "null" or "created"
  sharedBrowser,      \* that processor's browser: "null" or "open"
  jobPc,              \* where each concurrent processJob call stands
  startedWith,        \* the browser each processCompany call found ("none": not called)
  trackerFile,        \* data/processed_companies.json, shared by the worker processes
  trackerLoaded,      \* whether each worker process has run ProcessTracker.load
  trackerMap,         \* each worker process's ProcessTracker.processedCompanies
  pendingSaves,       \* the save() calls whose writeFile has not completed
  savedStatus,        \* the status last handed to saveProcessedCompany, by Target id
  trackerCalls,       \* saveProcessedCompany calls so far
  tableRows,          \* the results table: the status of the row of each contact_id
  logCalls,           \* the logResult calls: where each stands, its result and what recordExists answered
  finishedLogs,       \* the calls that have returned, in the order they did
  overlapPc,          \* where the checkEmails run of the next interval tick stands
  overlapCount,       \* that run's emailCount
  overlapI            \* that run's loop variable i

pipeline ==
  << pc, mode, target, company, page, searchPage, homepage, contactFormUrl, thrown,
     probeMessage, stages, analyzedUrl, marker, clicked, result, ret, rejected,
     saves, results, processedCompanies, runs >>

\* What processCompany never touches
batch == << companies, index, batchResults, batchPc >>
worker == << processor, job, shutdownPc, exitCode >>
urlCalls == << input, once, twice >>
formCalls == << form, categorized, again, extended >>
selection == << forms, analyzed, best, via >>
storage == << batchFile, rows, lastSaved, existsAnswer >>
mail == << mailbox, atStart, lastEmailCount, emails, pollPc, emailCount, pollI >>
finder ==
  << finderHome, anchors, finderPc, byLinks, probed, lastAnswer, threw,
     contactPage >>
fill == << dom, cssDefined, fillInputs, fillI, fillPc, filled, tried, lastTarget, written, filledCount, fillResults >>
consent == << boxesBefore, boxes, consentPc, acceptanceThrew >>
click == << clickables, candidateButtons, clickPc, scans, clickedEls, clickAnswer, submitAnswer >>
detection == << submitUrl, preUrl, finalUrl, successPhrase, outcomePc, detected >>
sharing == << sharedProcessor, sharedBrowser, jobPc, startedWith >>
tracking == << trackerFile, trackerLoaded, trackerMap, pendingSaves, savedStatus, trackerCalls >>
upsert == << tableRows, logCalls, finishedLogs >>
overlap == << overlapPc, overlapCount, overlapI >>
pure == << urlCalls, formCalls, selection, storage, mail, finder, fill, consent, click, detection, sharing, tracking, upsert, overlap >>

\* What a call of one pure function leaves alone
exceptUrlCalls == << pipeline, browser, batch, worker, formCalls, selection,
     storage,
     mail,
     finder,
     fill,
     consent,
     click,
     detection,
     sharing,
     tracking,
     upsert,
     overlap >>
exceptFormCalls == << pipeline, browser, batch, worker, urlCalls, selection,
     storage,
     mail,
     finder,
     fill,
     consent,
     click,
     detection,
     sharing,
     tracking,
     upsert,
     overlap >>
exceptSelection == << pipeline, browser, batch, worker, urlCalls, formCalls,
     storage,
     mail,
     finder,
     fill,
     consent,
     click,
     detection,
     sharing,
     tracking,
     upsert,
     overlap >>
exceptOverlap ==
  << pipeline, browser, batch, worker, urlCalls, formCalls, selection, storage, mail, finder, fill, consent, click, detection, sharing, tracking, upsert >>
exceptUpsert ==
  << pipeline, browser, batch, worker, urlCalls, formCalls, selection, storage, mail, finder, fill, consent, click, detection, sharing, tracking,
     overlap >>
exceptTracking ==
  << pipeline, browser, batch, worker, urlCalls, formCalls, selection, storage, mail, finder, fill, consent, click, detection, sharing,
     upsert,
     overlap >>
exceptSharing ==
  << pipeline, browser, batch, worker, urlCalls, formCalls, selection, storage, mail, finder, fill, consent, click, detection,
     tracking,
     upsert,
     overlap >>
exceptDetection ==
  << pipeline, browser, batch, worker, urlCalls, formCalls, selection, storage, mail, finder, fill, consent, click,
     sharing,
     tracking,
     upsert,
     overlap >>
exceptClick ==
  << pipeline, browser, batch, worker, urlCalls, formCalls, selection, storage, mail, finder, fill, consent,
     detection,
     sharing,
     tracking,
     upsert,
     overlap >>
exceptConsent ==
  << pipeline, browser, batch, worker, urlCalls, formCalls, selection, storage, mail, finder, fill,
     click,
     detection,
     sharing,
     tracking,
     upsert,
     overlap >>
exceptFill ==
  << pipeline, browser, batch, worker, urlCalls, formCalls, selection, storage, mail, finder,
     consent,
     click,
     detection,
     sharing,
     tracking,
     upsert,
     overlap >>
exceptFinder ==
  << pipeline, browser, batch, worker, urlCalls, formCalls, selection, storage, mail,
     fill,
     consent,
     click,
     detection,
     sharing,
     tracking,
     upsert,
     overlap >>
exceptMail ==
  << pipeline, browser, batch, worker, urlCalls, formCalls, selection, storage,
     finder,
     fill,
     consent,
     click,
     detection,
     sharing,
     tracking,
     upsert,
     overlap >>
exceptStorage ==
  << pipeline, browser, batch, worker, urlCalls, formCalls, selection, mail,
     finder,
     fill,
     consent,
     click,
     detection,
     sharing,
     tracking,
     upsert,
     overlap >>
driver == << browser, batch, worker, pure >>

vars == << pipeline, driver >>

Statuses == {"SUCCESS", "FAILED", "SKIPPED", "ERROR"}

NoSubmission ==
  [ present |-> FALSE, success |-> FALSE, hasCaptcha |-> FALSE,
    successDetected |-> FALSE, error |-> "" ]

NoResult ==
  [ id |-> 0, name |-> "", homepage |-> Null, contact_form_url |-> Null,
    contact_form_detected |-> FALSE, submission |-> NoSubmission,
    status |-> "", message |-> "", error |-> "" ]

NoForm == [ inputs |-> <<>>, submitButtons |-> <<>>, score |-> 0 ]

NoCompany ==
  [ id |-> 0, name |-> "", url |-> Null, url_2 |-> Null, contact_url |-> Null,
    homepage |-> Null, contact_form_url |-> Null ]

NoJob ==
  [ state |-> "none", data |-> NoCompany, attemptsMade |-> 0, delay |-> 0,
    executions |-> 0, returned |-> NoResult ]

\* ----------------------------------------------------------- results store
\* ResultsManager.generateMessage
generateMessage(r) ==
  CASE r.status = "SUCCESS" ->
         IF r.submission.successDetected
         THEN "Form submitted successfully and success message detected"
         ELSE "Form submitted successfully"
    [] r.status = "FAILED" ->
         IF r.submission.hasCaptcha
         THEN "Form submission failed - CAPTCHA detected"
         ELSE IF r.submission.error # ""
              THEN "Form submission failed - " \o r.submission.error
              ELSE "Form submission failed"
    [] r.status = "ERROR" ->
         IF r.error # "" THEN r.error ELSE "Processing error occurred"
    [] OTHER ->
         IF r.message # "" THEN r.message ELSE "No additional information"

\* The simplifiedResult of ResultsManager.saveResult
simplifiedResult(r) ==
  [ id |-> r.id, name |-> r.name,
    homepage |-> IF IsFalsy(r.homepage) THEN Null ELSE r.homepage,
    contact_form_url |->
      IF IsFalsy(r.contact_form_url) THEN Null ELSE r.contact_form_url,
    contact_form_detected |-> r.contact_form_detected,
    bot_detected |-> r.submission.hasCaptcha,
    status |-> r.status,
    message |-> generateMessage(r) ]

\* ResultsManager.saveResult: this.results after the call
saveResult(rs, r) == Append(rs, simplifiedResult(r))

\* ProcessTracker.saveProcessedCompany: the map after the call
saveProcessedCompany(m, companyId, status, url) ==
  [ i \in DOMAIN m \cup {companyId} |->
      IF i = companyId
      THEN [ status |-> status, url |-> IF IsFalsy(url) THEN Null ELSE url ]
      ELSE m[i] ]

\* ------------------------------------------------------------------ stages
\* ContactPageFinder.findContactPage, given what its two strategies find
findContactPage(linkResult, directResult) ==
  IF linkResult # Null THEN linkResult ELSE directResult

\* The first of ContactPageFinder.commonPaths under the homepage's origin
DirectContactUrl(hp) == UrlOrigin(hp) \o <<"/contact/">>

\* FormAnalyzer.analyzeForm: whether it reports a contactForm
analyzeForm(outcome) == [ contactForm |-> outcome = "best" ]

\* FormSubmitter.submitForm
submitForm(e) ==
  CASE ~e.gotoOk ->
         [ NoSubmission EXCEPT !.present = TRUE,
             !.error = "Navigation timeout of 30000 ms exceeded" ]
    [] e.gotoOk /\ ~e.fillOk ->
         [ NoSubmission EXCEPT !.present = TRUE,
             !.error = "Failed to fill form fields" ]
    [] e.fillOk /\ e.hasCaptcha ->
         [ NoSubmission EXCEPT !.present = TRUE, !.hasCaptcha = TRUE,
             !.error = "CAPTCHA detected" ]
    [] e.fillOk /\ ~e.hasCaptcha /\ ~e.clickOk ->
         [ NoSubmission EXCEPT !.present = TRUE,
             !.error = "Could not click submit button" ]
    [] e.clickOk /\ ~e.contentOk ->
         [ NoSubmission EXCEPT !.present = TRUE,
             !.error = "Execution context was destroyed" ]
    [] OTHER ->
         [ NoSubmission EXCEPT !.present = TRUE, !.success = TRUE,
             !.successDetected = e.successDetected ]

\* ---------------------------------------------------------- processCompany
\* String.prototype.includes on the messages the probe may reject with
MessageIncludes(msg, part) ==
  <<msg, part>> \in
    { <<"net::ERR_CERT_AUTHORITY_INVALID", "ERR_CERT_">>,
      <<"net::ERR_SSL_PROTOCOL_ERROR", "SSL">>,
      <<"unable to verify the first certificate", "certificate">>,
      <<"Site unreachable - possible certificate error", "certificate">> }

\* isCertificateError testing for 'ERR_CERT_' alone
isCertificateErrorNarrow(msg) == MessageIncludes(msg, "ERR_CERT_")

\* The test of the probe's catch block
isCertificateError(msg) ==
  \/ MessageIncludes(msg, "ERR_CERT_")
  \/ MessageIncludes(msg, "SSL")
  \/ MessageIncludes(msg, "certificate")

\* The three SKIPPED results
SkippedResult(c, hp, cfu, message) ==
  [ id |-> c.id, name |-> c.name, homepage |-> hp, contact_form_url |-> cfu,
    contact_form_detected |-> FALSE, submission |-> NoSubmission,
    status |-> "SKIPPED", message |-> message, error |-> "" ]

\* The result built after the submitter returned
SubmissionResult(c, hp, cfu, sub) ==
  [ id |-> c.id, name |-> c.name, homepage |-> hp, contact_form_url |-> cfu,
    contact_form_detected |-> IsFalsy(c.contact_url), submission |-> sub,
    status |-> IF sub.success THEN "SUCCESS" ELSE "FAILED",
    message |-> "", error |-> "" ]

\* The result built in the catch block
ErrorResult(c, message) ==
  [ id |-> c.id, name |-> c.name,
    homepage |-> IF IsFalsy(c.url) THEN Null ELSE c.url,
    contact_form_url |-> Null, contact_form_detected |-> FALSE,
    submission |-> NoSubmission, status |-> "ERROR", message |-> "",
    error |-> message ]

\* await saveResult(result); await saveProcessedCompany(...); return result
\* -- the return waits for the finally block.
Exit(r) ==
  /\ result' = r
  /\ results' = saveResult(results, r)
  /\ processedCompanies' =
       saveProcessedCompany(processedCompanies, company.id, r.status, r.homepage)
  /\ saves' = saves + 1
  /\ pc' = "finally"

Throw(message) ==
  /\ thrown' = message
  /\ pc' = "catch"
  /\ UNCHANGED << result, results, processedCompanies, saves >>

\* processCompany is called with c.
Call(c, m) ==
  /\ mode' = m
  /\ target' = c
  /\ company' = IF m = "queue" THEN processJobCompany(c) ELSE c
  /\ runs' = runs + 1
  /\ pc' = "newPage"
  /\ page' = "null"
  /\ searchPage' = "null"
  /\ homepage' = Null
  /\ contactFormUrl' = Null
  /\ thrown' = ""
  /\ probeMessage' = ""
  /\ stages' = {}
  /\ analyzedUrl' = Null
  /\ marker' = FALSE
  /\ clicked' = FALSE
  /\ result' = NoResult
  /\ ret' = NoResult
  /\ rejected' = FALSE
  /\ saves' = 0
  /\ UNCHANGED << results, processedCompanies >>

\* processCompanies (mode "direct") or processJob (mode "queue") calls
\* processCompany, which asks the browser for a page.
Start ==
  /\ pc \in {"idle", "done"}
  /\ runs < MaxRuns
  /\ \E c \in Companies, m \in {"direct", "queue"} :
       /\ m = "queue" => c \in LoadedCompanies
       /\ Call(c, m)
  /\ UNCHANGED driver

\* newPage, setViewport or setUserAgent rejects.
NewPageFails ==
  /\ pc = "newPage"
  /\ \E o \in NewPageOutcomes \ {"ok"} :
       /\ page' = IF o = "setupThrows" THEN "open" ELSE page
       /\ Throw(IF o = "setupThrows" THEN "Protocol error (Emulation.setDeviceMetricsOverride)"
                ELSE "Cannot read properties of null (reading 'newPage')")
  /\ UNCHANGED << driver, searchPage, mode, marker, target, company, homepage, contactFormUrl, probeMessage,
                  stages, analyzedUrl, clicked, ret, rejected, runs >>

\* The page is there; step 1 takes the homepage from company.url or asks
\* the website detector.
NewPageOk ==
  /\ pc = "newPage"
  /\ page' = "open"
  /\ IF ~IsFalsy(company.url)
     THEN homepage' = normalizeUrl(company.url) /\ pc' = "probe"
     ELSE homepage' = homepage /\ pc' = "detect"
  /\ UNCHANGED << driver, searchPage, mode, marker, target, company, contactFormUrl, thrown, probeMessage,
                  stages, analyzedUrl, clicked, result, ret, rejected, saves,
                  results, processedCompanies, runs >>

\* detectWebsite finds nothing with the common domain patterns and goes on
\* to searchWithPuppeteer, which asks the browser for a page of its own.
DetectSearch ==
  /\ pc = "detect"
  /\ searchPage = "null"
  /\ searchPage' = "open"
  /\ UNCHANGED << driver, mode, marker, target, company, page, homepage,
                  contactFormUrl, thrown, probeMessage, stages, analyzedUrl,
                  clicked, result, ret, rejected, saves, results,
                  processedCompanies, runs, pc >>

\* detectWebsite returns a URL; searchWithPuppeteer, if it ran, has closed
\* its page.
DetectFound ==
  /\ pc = "detect"
  /\ \E d \in DetectOutcomes \ {Null} : homepage' = d
  /\ pc' = "probe"
  /\ searchPage' = IF searchPage = "open" THEN "closed" ELSE searchPage
  /\ UNCHANGED << driver, mode, marker, target, company, page, contactFormUrl, thrown,
                  probeMessage, stages, analyzedUrl, clicked, result, ret,
                  rejected, saves, results, processedCompanies, runs >>

\* DetectMiss ending in a SKIPPED result instead of throwing
DetectMissSkips ==
  /\ pc = "detect"
  /\ Null \in DetectOutcomes
  /\ Exit(SkippedResult(company, homepage, Null,
                        "Could not detect company website"))
  /\ searchPage' = IF searchPage = "open" THEN "closed" ELSE searchPage
  /\ UNCHANGED << driver, mode, marker, target, company, page, homepage, contactFormUrl, thrown,
                  probeMessage, stages, analyzedUrl, clicked, ret, rejected, runs >>

DetectMiss ==
  /\ pc = "detect"
  /\ Null \in DetectOutcomes
  /\ Throw("Could not detect company website")
  /\ searchPage' = IF searchPage = "open" THEN "closed" ELSE searchPage
  /\ UNCHANGED << driver, mode, marker, target, company, page, homepage, contactFormUrl,
                  probeMessage, stages, analyzedUrl, clicked, ret, rejected, runs >>

\* The message the probe's catch block sees
ProbeError(answer) ==
  IF answer = "status0" THEN "Site unreachable - possible certificate error"
  ELSE answer

\* ProbeCertificate saving its SKIPPED result and then throwing the error on
ProbeCertificateRethrows ==
  /\ pc = "probe"
  /\ \E a \in GotoOutcomes(homepage) \ {""} :
       /\ isCertificateError(ProbeError(a))
       /\ probeMessage' = a
       /\ thrown' = ProbeError(a)
  /\ result' = SkippedResult(company, homepage, Null,
                             "SSL/Certificate error - site unreachable")
  /\ results' = saveResult(results, result')
  /\ processedCompanies' =
       saveProcessedCompany(processedCompanies, company.id, "SKIPPED", homepage)
  /\ saves' = saves + 1
  /\ pc' = "catch"
  /\ UNCHANGED << driver, searchPage, mode, marker, target, company, page, homepage, contactFormUrl,
                  stages, analyzedUrl, clicked, ret, rejected, runs >>

\* The probe fails and its catch block takes the failure for a certificate
\* error.
ProbeCertificate ==
  /\ pc = "probe"
  /\ \E a \in GotoOutcomes(homepage) \ {""} :
       /\ isCertificateError(ProbeError(a))
       /\ probeMessage' = a
  /\ Exit(SkippedResult(company, homepage, Null,
                        "SSL/Certificate error - site unreachable"))
  /\ UNCHANGED << driver, searchPage, mode, marker, target, company, page, homepage, contactFormUrl, thrown,
                  stages, analyzedUrl, clicked, ret, rejected, runs >>

\* The probe fails otherwise: its catch block throws the error on.
ProbeFails ==
  /\ pc = "probe"
  /\ \E a \in GotoOutcomes(homepage) \ {""} :
       /\ ~isCertificateError(ProbeError(a))
       /\ probeMessage' = a
       /\ Throw(ProbeError(a))
  /\ UNCHANGED << driver, searchPage, mode, marker, target, company, page, homepage, contactFormUrl,
                  stages, analyzedUrl, clicked, ret, rejected, runs >>

\* The contact URL step 2 takes from the company: normalizeUrl of
\* company.contact_url when that is truthy and not blank, else null.
SuppliedContactUrl(c) ==
  IF ~IsFalsy(c.contact_url) /\ Trim(c.contact_url) # <<>>
  THEN normalizeUrl(c.contact_url)
  ELSE Null

\* The probe answers; step 2 takes the contact URL from company.contact_url
\* and calls the analyzer on it, or calls the locator.
ProbeOk ==
  /\ pc = "probe"
  /\ "" \in GotoOutcomes(homepage)
  /\ probeMessage' = "ok"
  /\ contactFormUrl' = SuppliedContactUrl(company)
  /\ IF SuppliedContactUrl(company) = Null
     THEN /\ pc' = "locate"
          /\ stages' = stages \cup {"locator"}
          /\ analyzedUrl' = analyzedUrl
     ELSE /\ pc' = "analyze"
          /\ stages' = stages \cup {"analyzer"}
          /\ analyzedUrl' = SuppliedContactUrl(company)
  /\ UNCHANGED << driver, searchPage, mode, marker, target, company, page, homepage, thrown, clicked,
                  result, ret, rejected, saves, results, processedCompanies, runs >>

\* findContactPage returns a URL; the analyzer is called on it.
LocateFound ==
  /\ pc = "locate"
  /\ \E link \in {Null, LinkedContactUrl},
        direct \in {Null, DirectContactUrl(homepage)} :
       /\ findContactPage(link, direct) # Null
       /\ contactFormUrl' = findContactPage(link, direct)
       /\ analyzedUrl' = findContactPage(link, direct)
  /\ stages' = stages \cup {"analyzer"}
  /\ pc' = "analyze"
  /\ UNCHANGED << driver, searchPage, mode, marker, target, company, page, homepage, thrown, probeMessage,
                  clicked, result, ret, rejected, saves, results,
                  processedCompanies, runs >>

\* LocateMiss calling the analyzer although no contact URL was found
LocateMissAnalyzes ==
  /\ pc = "locate"
  /\ findContactPage(Null, Null) = Null
  /\ stages' = stages \cup {"analyzer"}
  /\ pc' = "analyze"
  /\ UNCHANGED << driver, searchPage, mode, marker, target, company, page,
                  homepage, contactFormUrl, thrown, probeMessage, analyzedUrl,
                  clicked, result, ret, rejected, saves, results,
                  processedCompanies, runs >>

\* findContactPage returns null.
LocateMiss ==
  /\ pc = "locate"
  /\ findContactPage(Null, Null) = Null
  /\ Exit(SkippedResult(company, homepage, Null, "Could not find contact page"))
  /\ UNCHANGED << driver, searchPage, mode, marker, target, company, page, homepage, contactFormUrl, thrown,
                  probeMessage, stages, analyzedUrl, clicked, ret, rejected, runs >>

\* AnalyzeMiss throwing 'No suitable contact form found on page'
AnalyzeMissThrows ==
  /\ pc = "analyze"
  /\ \E o \in AnalyzeOutcomes : ~analyzeForm(o).contactForm
  /\ Throw("No suitable contact form found on page")
  /\ UNCHANGED << driver, searchPage, mode, marker, target, company, page, homepage, contactFormUrl,
                  probeMessage, stages, analyzedUrl, clicked, ret, rejected, runs >>

\* analyzeForm reports no contactForm.
AnalyzeMiss ==
  /\ pc = "analyze"
  /\ \E o \in AnalyzeOutcomes : ~analyzeForm(o).contactForm
  /\ Exit(SkippedResult(company, homepage, contactFormUrl,
                        "No suitable contact form found on page"))
  /\ UNCHANGED << driver, searchPage, mode, marker, target, company, page, homepage, contactFormUrl, thrown,
                  probeMessage, stages, analyzedUrl, clicked, ret, rejected, runs >>

\* analyzeForm reports a contactForm; the submitter is called on it.
AnalyzeBest ==
  /\ pc = "analyze"
  /\ \E o \in AnalyzeOutcomes : analyzeForm(o).contactForm
  /\ stages' = stages \cup {"submitter"}
  /\ pc' = "submit"
  /\ UNCHANGED << driver, searchPage, mode, marker, target, company, page, homepage, contactFormUrl, thrown,
                  probeMessage, analyzedUrl, clicked, result, ret, rejected,
                  saves, results, processedCompanies, runs >>

\* submitForm returns; step 4 builds the result from what it returned.
Submit ==
  /\ pc = "submit"
  /\ \E e \in SubmitEnvs :
       /\ marker' = e.hasCaptcha
       /\ clicked' = e.clickOk
       /\ Exit(SubmissionResult(company, homepage, contactFormUrl, submitForm(e)))
  /\ UNCHANGED << driver, searchPage, mode, target, company, page, homepage, contactFormUrl, thrown,
                  probeMessage, stages, analyzedUrl, ret, rejected, runs >>

\* A catch block that logs the error and throws it on
CatchRethrows ==
  /\ pc = "catch"
  /\ rejected' = TRUE
  /\ pc' = "finally"
  /\ UNCHANGED << driver, searchPage, mode, marker, target, company, page, homepage, contactFormUrl, thrown,
                  probeMessage, stages, analyzedUrl, clicked, result, ret,
                  saves, results, processedCompanies, runs >>

\* The catch block
Catch ==
  /\ pc = "catch"
  /\ Exit(ErrorResult(company, thrown))
  /\ UNCHANGED << driver, searchPage, mode, marker, target, company, page, homepage, contactFormUrl, thrown,
                  probeMessage, stages, analyzedUrl, clicked, ret, rejected, runs >>

\* A finally block that leaves the page as it is
leavePage(p) == p

\* page.close().catch(() => {}) when there is a page
closePage(p) == IF p # "null" THEN "closed" ELSE p

\* The finally block, after which the caller has the Result.
Finally ==
  /\ pc = "finally"
  /\ page' = closePage(page)
  /\ ret' = IF rejected THEN NoResult ELSE result
  /\ pc' = "done"
  /\ UNCHANGED << driver, searchPage, mode, marker, target, company, homepage, contactFormUrl, thrown,
                  probeMessage, stages, analyzedUrl, clicked, result, rejected,
                  saves, results, processedCompanies, runs >>

\* No processCompany call yet, nothing saved, nothing loaded
NoCall ==
  /\ pc = "idle"
  /\ mode = "direct"
  /\ target = NoCompany
  /\ company = NoCompany
  /\ page = "null"
  /\ searchPage = "null"
  /\ homepage = Null
  /\ contactFormUrl = Null
  /\ thrown = ""
  /\ probeMessage = ""
  /\ stages = {}
  /\ analyzedUrl = Null
  /\ marker = FALSE
  /\ clicked = FALSE
  /\ result = NoResult
  /\ ret = NoResult
  /\ rejected = FALSE
  /\ saves = 0
  /\ results = <<>>
  /\ processedCompanies = [ i \in {} |-> 0 ]
  /\ runs = 0

\* No processCompanies call
NoBatch ==
  /\ companies = <<>>
  /\ index = 0
  /\ batchResults = <<>>
  /\ batchPc = "idle"

\* No worker
NoWorker ==
  /\ processor = "null"
  /\ job = NoJob
  /\ shutdownPc = <<>>
  /\ exitCode = "running"

\* A result not computed yet
Unset == <<"<unset>">>

\* No call of the pure functions
NoUrlCalls ==
  /\ input = Null
  /\ once = Unset
  /\ twice = Unset

NoFormCalls ==
  /\ form = NoForm
  /\ categorized = NoForm
  /\ again = NoForm
  /\ extended = NoForm

NoSelection ==
  /\ forms = <<>>
  /\ analyzed = <<>>
  /\ best = [ index |-> 0 - 1, inputs |-> <<>>, submitButtons |-> <<>>, score |-> 0 ]
  /\ via = "none"

NoStorage ==
  /\ batchFile = <<>>
  /\ rows = {}
  /\ lastSaved = 0
  /\ existsAnswer = "none"

NoMail ==
  /\ mailbox = 0
  /\ atStart = 0
  /\ lastEmailCount = 0
  /\ emails = <<>>
  /\ pollPc = "idle"
  /\ emailCount = 0
  /\ pollI = 0

NoFinder ==
  /\ finderHome = Null
  /\ anchors = <<>>
  /\ finderPc = "idle"
  /\ byLinks = Null
  /\ probed = <<>>
  /\ lastAnswer = "none"
  /\ threw = FALSE
  /\ contactPage = Null

NoFill ==
  /\ dom = <<>>
  /\ cssDefined = FALSE
  /\ fillInputs = <<>>
  /\ fillI = 0
  /\ fillPc = "idle"
  /\ filled = FALSE
  /\ tried = <<>>
  /\ lastTarget = 0
  /\ written = <<>>
  /\ filledCount = 0
  /\ fillResults = [success |-> FALSE, filledCount |-> 0, totalFields |-> 0]

NoConsent ==
  /\ boxesBefore = <<>>
  /\ boxes = <<>>
  /\ consentPc = "idle"
  /\ acceptanceThrew = FALSE

NoClick ==
  /\ clickables = <<>>
  /\ candidateButtons = <<>>
  /\ clickPc = "idle"
  /\ scans = <<>>
  /\ clickedEls = <<>>
  /\ clickAnswer = [success |-> FALSE, error |-> ""]
  /\ submitAnswer = NoSubmission

NoOutcome ==
  /\ submitUrl = ""
  /\ preUrl = ""
  /\ finalUrl = ""
  /\ successPhrase = FALSE
  /\ outcomePc = "idle"
  /\ detected = FALSE

NoSharing ==
  /\ sharedProcessor = "null"
  /\ sharedBrowser = "null"
  /\ jobPc = [ j \in 1..MaxJobs |-> "queued" ]
  /\ startedWith = [ j \in 1..MaxJobs |-> "none" ]

NoTracking ==
  /\ trackerFile = <<>>
  /\ trackerLoaded = [ w \in 1..MaxWorkers |-> FALSE ]
  /\ trackerMap = [ w \in 1..MaxWorkers |-> [ i \in {} |-> 0 ] ]
  /\ pendingSaves = {}
  /\ savedStatus = [ i \in {} |-> "" ]
  /\ trackerCalls = 0

NoUpsert ==
  /\ tableRows = [ i \in {} |-> "" ]
  /\ logCalls = [ c \in 1..MaxCalls |-> [ pc |-> "idle", id |-> 0, status |-> "", exists |-> FALSE ] ]
  /\ finishedLogs = <<>>

NoOverlap ==
  /\ overlapPc = "idle"
  /\ overlapCount = 0
  /\ overlapI = 0

NoPure ==
  /\ NoUrlCalls
  /\ NoFormCalls
  /\ NoSelection
  /\ NoStorage
  /\ NoMail
  /\ NoFinder
  /\ NoFill
  /\ NoConsent
  /\ NoClick
  /\ NoOutcome
  /\ NoSharing
  /\ NoTracking
  /\ NoUpsert
  /\ NoOverlap

Init ==
  /\ NoCall
  /\ browser = "null"
  /\ NoBatch
  /\ NoWorker
  /\ NoPure

\* ------------------------------------------------------- processCompanies
\* The companies one processCompanies call is given
BatchCompanies ==
  { c \in TestCompanies :
      <<c.url, c.contact_url>> \in
        { <<Null, Null>>,
          <<<<"acme.test">>, <<>>>>,
          <<<<"acme.test">>, <<"acme.test", "/contact">>>> } }

InputLists == UNION { [1..n -> BatchCompanies] : n \in 0..MaxBatch }

\* data/processed_companies.json as ProcessTracker.load may find it
TrackerFiles ==
  { <<>>,
    << [ id |-> 1, status |-> "SUCCESS", url |-> DetectedHomepage ] >> }

\* ProcessTracker.load: the map after the call; a later entry of the file
\* replaces an earlier one with the same id.
load(file) ==
  [ i \in { file[k].id : k \in DOMAIN file } |->
      LET k == CHOOSE a \in DOMAIN file :
                 /\ file[a].id = i
                 /\ \A b \in DOMAIN file : file[b].id = i => b <= a
      IN [ status |-> file[k].status, url |-> file[k].url ] ]

\* ContactFormProcessor.init: the browser is launched and the tracker
\* loaded.
InitOk ==
  /\ batchPc = "init"
  /\ browser' = "open"
  /\ \E f \in TrackerFiles : processedCompanies' = load(f)
  /\ batchPc' = "loop"
  /\ UNCHANGED << pc, mode, target, company, page, searchPage, homepage, contactFormUrl,
                  thrown, probeMessage, stages, analyzedUrl, marker, clicked,
                  result, ret, rejected, saves, results, runs, companies,
                  index, batchResults, worker, pure >>

\* puppeteer.launch rejects: init throws the error on, and processCompanies,
\* which calls init outside its try, rejects.
InitFails ==
  /\ batchPc = "init"
  /\ batchPc' = "rejected"
  /\ UNCHANGED << pipeline, browser, companies, index, batchResults, worker,
                  pure >>

\* The loop calls processCompany(companies[i]).
Iterate ==
  /\ batchPc = "loop"
  /\ pc = "idle"
  /\ index < Len(companies)
  /\ Call(companies[index + 1], "direct")
  /\ UNCHANGED driver

\* Collect leaving the loop after a Result that is not SUCCESS
CollectStops ==
  /\ batchPc = "loop"
  /\ pc = "done"
  /\ pc' = "idle"
  /\ batchResults' = Append(batchResults, ret)
  /\ index' = index + 1
  /\ batchPc' = IF ret.status = "SUCCESS" THEN batchPc ELSE "finally"
  /\ UNCHANGED << mode, target, company, page, searchPage, homepage,
                  contactFormUrl,
                  thrown, probeMessage, stages, analyzedUrl, marker, clicked,
                  result, ret, rejected, saves, results, processedCompanies,
                  runs, browser, companies, worker, pure >>

\* processCompany has settled: its result is pushed and i incremented, or
\* its rejection leaves the loop.
Collect ==
  /\ batchPc = "loop"
  /\ pc = "done"
  /\ pc' = "idle"
  /\ IF rejected
     THEN /\ batchPc' = "finallyThrown"
          /\ UNCHANGED << index, batchResults >>
     ELSE /\ batchResults' = Append(batchResults, ret)
          /\ index' = index + 1
          /\ batchPc' = batchPc
  /\ UNCHANGED << mode, target, company, page, searchPage, homepage,
                  contactFormUrl,
                  thrown, probeMessage, stages, analyzedUrl, marker, clicked,
                  result, ret, rejected, saves, results, processedCompanies,
                  runs, browser, companies, worker, pure >>

\* The loop is over: generateReport(results), then return results.
Report ==
  /\ batchPc = "loop"
  /\ pc = "idle"
  /\ index = Len(companies)
  /\ batchPc' = "finally"
  /\ UNCHANGED << pipeline, browser, companies, index, batchResults, worker,
                  pure >>

\* ContactFormProcessor.close
close(b) == IF b # "null" THEN "closed" ELSE b

\* The finally block of processCompanies
Close ==
  /\ batchPc \in {"finally", "finallyThrown"}
  /\ browser' = close(browser)
  /\ batchPc' = IF batchPc = "finally" THEN "returned" ELSE "rejected"
  /\ UNCHANGED << pipeline, companies, index, batchResults, worker, pure >>

InitBatch ==
  /\ NoCall
  /\ browser = "null"
  /\ companies \in InputLists
  /\ index = 0
  /\ batchResults = <<>>
  /\ batchPc = "init"
  /\ NoWorker
  /\ NoPure

NextBatch ==
  \/ InitOk
  \/ InitFails
  \/ Iterate
  \/ NewPageFails
  \/ NewPageOk
  \/ DetectSearch
  \/ DetectFound
  \/ DetectMiss
  \/ ProbeCertificate
  \/ ProbeFails
  \/ ProbeOk
  \/ LocateFound
  \/ LocateMiss
  \/ AnalyzeMiss
  \/ AnalyzeBest
  \/ Submit
  \/ Catch
  \/ Finally
  \/ Collect
  \/ Report
  \/ Close

SpecBatch == InitBatch /\ [][NextBatch]_vars

\* ------------------------------------------------------------------ worker
\* defaultJobOptions of the queue
attempts == 3
backoffDelay == 5000

\* The delay of the exponential backoff before the retry that follows the
\* attemptsMade-th failed attempt
backoff(attemptsMade) == (2 ^ attemptsMade - 1) * backoffDelay

\* The queue after the handler of job j rejected: the job is delayed for a
\* retry, or failed for good once `attempts` attempts were made.
moveToFailed(j) ==
  IF j.attemptsMade + 1 < attempts
  THEN [ j EXCEPT !.state = "delayed", !.attemptsMade = j.attemptsMade + 1,
                  !.delay = backoff(j.attemptsMade + 1) ]
  ELSE [ j EXCEPT !.state = "failed", !.attemptsMade = j.attemptsMade + 1 ]

\* The worker process runs and no shutdown() has been called.
Accepting == exitCode = "running" /\ shutdownPc = <<>>

\* The companies put on the queue
QueuedCompanies == { c \in LoadedCompanies : c.id = 1 }

\* index.js addToQueue: a job for one loaded company
AddToQueue ==
  /\ job.state \in {"none", "completed"}
  /\ runs < MaxRuns
  /\ \E c \in QueuedCompanies :
       job' = [ NoJob EXCEPT !.state = "waiting", !.data = c ]
  /\ UNCHANGED << pipeline, browser, batch, processor, shutdownPc, exitCode,
                  pure >>

\* The queue hands the job, new or due for a retry, to processJob.
TakeJob ==
  /\ Accepting
  /\ job.state \in {"waiting", "delayed"}
  /\ job' = [ job EXCEPT !.state = "active", !.delay = 0,
                         !.executions = job.executions + 1 ]
  /\ pc' = "idle"
  /\ UNCHANGED << mode, target, company, page, searchPage, homepage,
                  contactFormUrl,
                  thrown, probeMessage, stages, analyzedUrl, marker, clicked,
                  result, ret, rejected, saves, results, processedCompanies,
                  runs, browser, batch, processor, shutdownPc, exitCode, pure >>

\* initProcessor, first call: the processor is created and initialised.
InitProcessorOk ==
  /\ exitCode = "running"
  /\ job.state = "active"
  /\ processor = "null"
  /\ processor' = "created"
  /\ browser' = "open"
  /\ \E f \in TrackerFiles : processedCompanies' = load(f)
  /\ UNCHANGED << pc, mode, target, company, page, searchPage, homepage, contactFormUrl,
                  thrown, probeMessage, stages, analyzedUrl, marker, clicked,
                  result, ret, rejected, saves, results, runs, batch, job,
                  shutdownPc, exitCode, pure >>

\* initProcessor, first call: the processor is created, its init rejects
\* (puppeteer.launch failed) and processJob throws the error on.
InitProcessorFails ==
  /\ exitCode = "running"
  /\ job.state = "active"
  /\ processor = "null"
  /\ processor' = "created"
  /\ job' = moveToFailed(job)
  /\ UNCHANGED << pipeline, browser, batch, shutdownPc, exitCode, pure >>

\* processJob calls processCompany with the four fields of job.data.
ProcessJob ==
  /\ exitCode = "running"
  /\ job.state = "active"
  /\ processor = "created"
  /\ pc = "idle"
  /\ Call(job.data, "queue")
  /\ UNCHANGED driver

\* JobSettles with a processJob that throws when the Result is FAILED
JobSettlesThrowsOnFailed ==
  /\ exitCode = "running"
  /\ job.state = "active"
  /\ pc = "done"
  /\ pc' = "idle"
  /\ job' = IF rejected \/ ret.status = "FAILED"
            THEN [ moveToFailed(job) EXCEPT !.returned = ret ]
            ELSE [ job EXCEPT !.state = "completed", !.returned = ret ]
  /\ UNCHANGED << mode, target, company, page, searchPage, homepage,
                  contactFormUrl,
                  thrown, probeMessage, stages, analyzedUrl, marker, clicked,
                  result, ret, rejected, saves, results, processedCompanies,
                  runs, browser, batch, processor, shutdownPc, exitCode, pure >>

\* processCompany has settled: processJob returns its Result and the job
\* is completed, or throws its rejection on and the attempt has failed.
JobSettles ==
  /\ exitCode = "running"
  /\ job.state = "active"
  /\ pc = "done"
  /\ pc' = "idle"
  /\ job' = IF rejected
            THEN moveToFailed(job)
            ELSE [ job EXCEPT !.state = "completed", !.returned = ret ]
  /\ UNCHANGED << mode, target, company, page, searchPage, homepage,
                  contactFormUrl,
                  thrown, probeMessage, stages, analyzedUrl, marker, clicked,
                  result, ret, rejected, saves, results, processedCompanies,
                  runs, browser, batch, processor, shutdownPc, exitCode, pure >>

\* SIGTERM, SIGINT or an uncaught exception: shutdown() is called.
Signal ==
  /\ exitCode = "running"
  /\ Len(shutdownPc) < MaxSignals
  /\ shutdownPc' = Append(shutdownPc, "closeQueue")
  /\ UNCHANGED << pipeline, browser, batch, processor, job, exitCode, pure >>

\* await queue.close() resolves, which it does once no job is active.
QueueClosed ==
  /\ exitCode = "running"
  /\ job.state # "active"
  /\ \E k \in DOMAIN shutdownPc :
       /\ shutdownPc[k] = "closeQueue"
       /\ shutdownPc' = [ shutdownPc EXCEPT ![k] = "closeProcessor" ]
  /\ UNCHANGED << pipeline, browser, batch, processor, job, exitCode, pure >>

\* await queue.close() rejects: the catch block calls process.exit(1).
QueueCloseFails ==
  /\ exitCode = "running"
  /\ \E k \in DOMAIN shutdownPc :
       /\ shutdownPc[k] = "closeQueue"
       /\ shutdownPc' = [ shutdownPc EXCEPT ![k] = "exited" ]
  /\ exitCode' = "1"
  /\ UNCHANGED << pipeline, browser, batch, processor, job, pure >>

\* if (processor) await processor.close()
CloseProcessor ==
  /\ exitCode = "running"
  /\ \E k \in DOMAIN shutdownPc :
       /\ shutdownPc[k] = "closeProcessor"
       /\ shutdownPc' = [ shutdownPc EXCEPT ![k] = "exit" ]
  /\ browser' = IF processor # "null" THEN close(browser) ELSE browser
  /\ UNCHANGED << pipeline, batch, processor, job, exitCode, pure >>

\* process.exit(0)
ProcessExit ==
  /\ exitCode = "running"
  /\ \E k \in DOMAIN shutdownPc :
       /\ shutdownPc[k] = "exit"
       /\ shutdownPc' = [ shutdownPc EXCEPT ![k] = "exited" ]
  /\ exitCode' = "0"
  /\ UNCHANGED << pipeline, browser, batch, processor, job, pure >>

\* A step of processCompany inside the worker process
Running == exitCode = "running" /\ job.state = "active"

NextWorker ==
  \/ AddToQueue
  \/ TakeJob
  \/ InitProcessorOk
  \/ InitProcessorFails
  \/ ProcessJob
  \/ Running /\ NewPageFails /\ (browser = "open" \/ page' = "null")
  \/ Running /\ browser = "open" /\ NewPageOk
  \/ Running /\ DetectSearch
  \/ Running /\ DetectFound
  \/ Running /\ DetectMiss
  \/ Running /\ ProbeCertificate
  \/ Running /\ ProbeFails
  \/ Running /\ ProbeOk
  \/ Running /\ LocateFound
  \/ Running /\ LocateMiss
  \/ Running /\ AnalyzeMiss
  \/ Running /\ AnalyzeBest
  \/ Running /\ Submit
  \/ Running /\ Catch
  \/ Running /\ Finally
  \/ JobSettles
  \/ Signal
  \/ QueueClosed
  \/ QueueCloseFails
  \/ CloseProcessor
  \/ ProcessExit

SpecWorker == Init /\ [][NextWorker]_vars

\* ------------------------------------------------------------ normalizeUrl
\* The strings handed to normalizeUrl: null, and every string of up to
\* MaxLen tokens - spaces, parentheses, a scheme, a label or host with
\* capitals, a host, a path.
UrlTokens == { SP, LP, RP, HTTPS, "Acme", "acme.test", "/contact" }

UrlInputs ==
  {Null} \cup UNION { [1..n -> UrlTokens] : n \in 0..MaxLen }

\* normalizeUrl(input)
Normalize ==
  /\ once = Unset
  /\ once' = normalizeUrl(input)
  /\ UNCHANGED << exceptUrlCalls, input, twice >>

\* normalizeUrl of what normalizeUrl returned
NormalizeAgain ==
  /\ once # Unset
  /\ twice = Unset
  /\ twice' = normalizeUrl(once)
  /\ UNCHANGED << exceptUrlCalls, input, once >>

InitUrl ==
  /\ NoCall
  /\ browser = "null"
  /\ NoBatch
  /\ NoWorker
  /\ input \in UrlInputs
  /\ once = Unset
  /\ twice = Unset
  /\ NoFormCalls
  /\ NoSelection
  /\ NoStorage
  /\ NoMail
  /\ NoFinder
  /\ NoFill
  /\ NoConsent
  /\ NoClick
  /\ NoOutcome
  /\ NoSharing
  /\ NoTracking
  /\ NoUpsert
  /\ NoOverlap

NextUrl ==
  \/ Normalize
  \/ NormalizeAgain

SpecUrl == InitUrl /\ [][NextUrl]_vars

\* ------------------------------------------------------------ formAnalyzer
\* The groups detectFieldType tests, in the order it tests them
FieldGroups ==
  << "email", "phone", "fullname", "firstname", "lastname", "company",
     "department", "jobtitle", "website", "message", "subject" >>

FieldTypes == { FieldGroups[k] : k \in DOMAIN FieldGroups } \cup {"text"}

\* The groups whose pattern matches the lower-cased attribute string a
Mentions(a) ==
  CASE a = "user_email" -> {"email"}
    [] a = "tel_number" -> {"phone"}
    [] a = "hotel" -> {"phone"}
    [] a = "your-name" -> {"fullname"}
    [] a = "first_name" -> {"firstname"}
    [] a = "last_name" -> {"lastname"}
    [] a = "company" -> {"company"}
    [] a = "company_email" -> {"email", "company"}
    [] a = "dept" -> {"department"}
    [] a = "job_title" -> {"jobtitle"}
    [] a = "website" -> {"website"}
    [] a = "site_details" -> {"website", "message"}
    [] a = "message" -> {"message"}
    [] a = "message_title" -> {"jobtitle", "message"}
    [] a = "subject" -> {"subject"}
    [] a = "email_subject" -> {"email", "subject"}
    [] a = "Email or phone" -> {"email", "phone"}
    [] OTHER -> {}

\* searchStr.match(pattern of group g) for the field `field`, whose
\* searchStr is made of its name and its placeholder
Matches(field, g) == g \in Mentions(field.name) \cup Mentions(field.placeholder)

\* detectFieldType testing for a phone field before an email field
detectFieldTypePhoneFirst(field) ==
  IF field.type = "tel" \/ Matches(field, "phone") THEN "phone"
  ELSE IF field.type = "email" \/ Matches(field, "email") THEN "email"
  ELSE IF Matches(field, "fullname") THEN "fullname"
  ELSE IF Matches(field, "firstname") THEN "firstname"
  ELSE IF Matches(field, "lastname") THEN "lastname"
  ELSE IF Matches(field, "company") THEN "company"
  ELSE IF Matches(field, "department") THEN "department"
  ELSE IF Matches(field, "jobtitle") THEN "jobtitle"
  ELSE IF field.type = "url" \/ Matches(field, "website") THEN "website"
  ELSE IF field.tagName = "textarea" \/ Matches(field, "message") THEN "message"
  ELSE IF Matches(field, "subject") THEN "subject"
  ELSE "text"

\* FormAnalyzer.detectFieldType
detectFieldType(field) ==
  IF field.type = "email" \/ Matches(field, "email") THEN "email"
  ELSE IF field.type = "tel" \/ Matches(field, "phone") THEN "phone"
  ELSE IF Matches(field, "fullname") THEN "fullname"
  ELSE IF Matches(field, "firstname") THEN "firstname"
  ELSE IF Matches(field, "lastname") THEN "lastname"
  ELSE IF Matches(field, "company") THEN "company"
  ELSE IF Matches(field, "department") THEN "department"
  ELSE IF Matches(field, "jobtitle") THEN "jobtitle"
  ELSE IF field.type = "url" \/ Matches(field, "website") THEN "website"
  ELSE IF field.tagName = "textarea" \/ Matches(field, "message") THEN "message"
  ELSE IF Matches(field, "subject") THEN "subject"
  ELSE "text"

\* btnText.match(/submit|send|contact|.../) for the button texts of the model
SubmitIntent(text) == text \in {"Send", "Submit"}

\* inputs.some(i => types.includes(i.fieldType))
some(inputs, types) == \E i \in DOMAIN inputs : inputs[i].fieldType \in types

\* calculateFormScore giving the name bonus for a fullname field alone
calculateFormScoreFullNameOnly(inputs, submitButtons) ==
  (IF some(inputs, {"email"}) THEN 40 ELSE 0)
  + (IF some(inputs, {"message"}) THEN 35 ELSE 0)
  + (IF some(inputs, {"fullname"}) THEN 20 ELSE 0)
  + (IF some(inputs, {"company"}) THEN 10 ELSE 0)
  + (IF Len(inputs) >= 2 /\ Len(inputs) <= 25 THEN 15
     ELSE IF Len(inputs) > 25 THEN 0 - 15
     ELSE 0 - 20)
  + (IF Len(submitButtons) > 0
     THEN 15 + (IF SubmitIntent(submitButtons[1].text) THEN 10 ELSE 0)
     ELSE 0)

\* calculateFormScore giving 25 for an email field
calculateFormScoreSmallEmail(inputs, submitButtons) ==
  (IF some(inputs, {"email"}) THEN 25 ELSE 0)
  + (IF some(inputs, {"message"}) THEN 35 ELSE 0)
  + (IF some(inputs, {"fullname", "firstname", "lastname"}) THEN 20 ELSE 0)
  + (IF some(inputs, {"company"}) THEN 10 ELSE 0)
  + (IF Len(inputs) >= 2 /\ Len(inputs) <= 25 THEN 15
     ELSE IF Len(inputs) > 25 THEN 0 - 15
     ELSE 0 - 20)
  + (IF Len(submitButtons) > 0
     THEN 15 + (IF SubmitIntent(submitButtons[1].text) THEN 10 ELSE 0)
     ELSE 0)

\* FormAnalyzer.calculateFormScore
calculateFormScore(inputs, submitButtons) ==
  (IF some(inputs, {"email"}) THEN 40 ELSE 0)
  + (IF some(inputs, {"message"}) THEN 35 ELSE 0)
  + (IF some(inputs, {"fullname", "firstname", "lastname"}) THEN 20 ELSE 0)
  + (IF some(inputs, {"company"}) THEN 10 ELSE 0)
  + (IF Len(inputs) >= 2 /\ Len(inputs) <= 25 THEN 15
     ELSE IF Len(inputs) > 25 THEN 0 - 15
     ELSE 0 - 20)
  + (IF Len(submitButtons) > 0
     THEN 15 + (IF SubmitIntent(submitButtons[1].text) THEN 10 ELSE 0)
     ELSE 0)

\* FormAnalyzer.categorizeForm
categorizeForm(f) ==
  LET categorizedInputs ==
        [ i \in DOMAIN f.inputs |->
            [ f.inputs[i] EXCEPT !.fieldType = detectFieldType(f.inputs[i]) ] ]
  IN [ f EXCEPT !.inputs = categorizedInputs,
                !.score = calculateFormScore(categorizedInputs, f.submitButtons) ]

\* The fields a page may show: input elements of four types and textareas,
\* with a name and a placeholder.
FieldNames ==
  { "user_email", "tel_number", "hotel", "your-name", "first_name",
    "last_name", "company", "company_email", "dept", "job_title", "website",
    "site_details", "message", "message_title", "subject", "email_subject",
    "q" }

Fields ==
  { [ tagName |-> e[1], type |-> e[2], name |-> n, placeholder |-> p,
      fieldType |-> "" ] :
      e \in { <<"input", "text">>, <<"input", "email">>, <<"input", "tel">>,
              <<"input", "url">>, <<"textarea", "textarea">> },
      n \in FieldNames, p \in {"", "Email or phone"} }

PlainField ==
  [ tagName |-> "input", type |-> "text", name |-> "q", placeholder |-> "",
    fieldType |-> "" ]

KeyFields ==
  { f \in Fields :
      /\ f.tagName = "input" /\ f.type = "text" /\ f.placeholder = ""
      /\ f.name \in {"user_email", "message", "your-name", "last_name",
                      "company"} }

\* The forms extracted from a page: up to two leading fields, then plain
\* text fields (a form of more than two fields starts with a key field or a
\* plain one), and the visible submit buttons.
Leads ==
  {<<>>} \cup { <<f>> : f \in Fields } \cup { <<f, g>> : f \in KeyFields, g \in KeyFields }

ButtonLists ==
  { <<>>, << [text |-> "Send"] >>, << [text |-> "Go"] >>,
    << [text |-> "Go"], [text |-> "Submit"] >> }

Forms ==
  { f \in { [ inputs |-> lead \o [i \in 1..k |-> PlainField],
              submitButtons |-> b, score |-> 0 ] :
              lead \in Leads, k \in 0..MaxFill, b \in ButtonLists } :
      Len(f.inputs) > 2 => f.inputs[1] \in KeyFields \cup {PlainField} }

\* categorizeForm(form)
Categorize ==
  /\ categorized = NoForm
  /\ categorized' = categorizeForm(form)
  /\ UNCHANGED << exceptFormCalls, form, again, extended >>

\* categorizeForm(form), once more
CategorizeAgain ==
  /\ categorized # NoForm
  /\ again = NoForm
  /\ again' = categorizeForm(form)
  /\ UNCHANGED << exceptFormCalls, form, categorized, extended >>

\* The fields detectFieldType calls email, of which one is added to a form
EmailFields ==
  { f \in Fields :
      /\ f.tagName = "input" /\ f.placeholder = ""
      /\ \/ f.type = "email" /\ f.name = "q"
         \/ f.type = "text" /\ f.name \in {"user_email", "company_email"} }

\* categorizeForm of the form with one email field put before or after its
\* fields, for a form in which no field is email
CategorizeWithEmail ==
  /\ categorized # NoForm
  /\ extended = NoForm
  /\ ~some(categorized.inputs, {"email"})
  /\ \E f \in EmailFields, front \in BOOLEAN :
       extended' =
         categorizeForm(
           [ form EXCEPT !.inputs = IF front THEN <<f>> \o @ ELSE @ \o <<f>> ])
  /\ UNCHANGED << exceptFormCalls, form, categorized, again >>

InitForm ==
  /\ NoCall
  /\ browser = "null"
  /\ NoBatch
  /\ NoWorker
  /\ NoUrlCalls
  /\ form \in Forms
  /\ categorized = NoForm
  /\ again = NoForm
  /\ extended = NoForm
  /\ NoSelection
  /\ NoStorage
  /\ NoMail
  /\ NoFinder
  /\ NoFill
  /\ NoConsent
  /\ NoClick
  /\ NoOutcome
  /\ NoSharing
  /\ NoTracking
  /\ NoUpsert
  /\ NoOverlap

NextForm ==
  \/ Categorize
  \/ CategorizeAgain
  \/ CategorizeWithEmail

SpecForm == InitForm /\ [][NextForm]_vars

\* ----------------------------------------------------- findBestContactForm
\* forms.sort((a, b) => b.score - a.score): by falling score, forms of equal
\* score in the order they had
RECURSIVE SortByScore(_)
SortByScore(fs) ==
  IF Len(fs) <= 1 THEN fs
  ELSE LET rest == SortByScore(Tail(fs))
           ahead == { i \in DOMAIN rest : rest[i].score > Head(fs).score }
           n == Cardinality(ahead)
       IN SubSeq(rest, 1, n) \o <<Head(fs)>> \o SubSeq(rest, n + 1, Len(rest))

\* The test of the fallback's find
HasEmailMessageSubmit(f) ==
  /\ some(f.inputs, {"email"})
  /\ some(f.inputs, {"message"})
  /\ Len(f.submitButtons) > 0

\* findBestContactForm's null
NoBest == [ index |-> 0 - 1, inputs |-> <<>>, submitButtons |-> <<>>, score |-> 0 ]

\* The threshold a top form's score is compared with
threshold == 30

\* findBestContactForm accepting a top form from a score of 80 on
findBestContactFormHighThreshold(fs) ==
  IF Len(fs) = 0 THEN [form |-> NoBest, via |-> "empty", sorted |-> fs]
  ELSE
    LET sorted == SortByScore(fs)
        found == { i \in DOMAIN sorted : HasEmailMessageSubmit(sorted[i]) }
    IN IF sorted[1].score >= 80
       THEN [form |-> sorted[1], via |-> "threshold", sorted |-> sorted]
       ELSE IF found # {}
       THEN [form |-> sorted[CHOOSE i \in found : \A j \in found : i <= j],
             via |-> "fallback", sorted |-> sorted]
       ELSE [form |-> NoBest, via |-> "none suitable", sorted |-> sorted]

\* findBestContactForm returning the top form whatever its score
findBestContactFormAlwaysTop(fs) ==
  IF Len(fs) = 0 THEN [form |-> NoBest, via |-> "empty", sorted |-> fs]
  ELSE [form |-> SortByScore(fs)[1], via |-> "threshold",
        sorted |-> SortByScore(fs)]

\* findBestContactForm taking the first form of the page for the top form
findBestContactFormUnsorted(fs) ==
  IF Len(fs) = 0 THEN [form |-> NoBest, via |-> "empty", sorted |-> fs]
  ELSE
    LET sorted == fs
        found == { i \in DOMAIN sorted : HasEmailMessageSubmit(sorted[i]) }
    IN IF sorted[1].score >= threshold
       THEN [form |-> sorted[1], via |-> "threshold", sorted |-> sorted]
       ELSE IF found # {}
       THEN [form |-> sorted[CHOOSE i \in found : \A j \in found : i <= j],
             via |-> "fallback", sorted |-> sorted]
       ELSE [form |-> NoBest, via |-> "none suitable", sorted |-> sorted]

\* FormAnalyzer.findBestContactForm: the form it returns, the return
\* statement that gave it, and the array it was handed, which it sorts in
\* place
findBestContactForm(fs) ==
  IF Len(fs) = 0 THEN [form |-> NoBest, via |-> "empty", sorted |-> fs]
  ELSE
    LET sorted == SortByScore(fs)
        found == { i \in DOMAIN sorted : HasEmailMessageSubmit(sorted[i]) }
    IN IF sorted[1].score >= threshold
       THEN [form |-> sorted[1], via |-> "threshold", sorted |-> sorted]
       ELSE IF found # {}
       THEN [form |-> sorted[CHOOSE i \in found : \A j \in found : i <= j],
             via |-> "fallback", sorted |-> sorted]
       ELSE [form |-> NoBest, via |-> "none suitable", sorted |-> sorted]

\* The fields of a page's forms
NamedField(n) ==
  [ tagName |-> "input", type |-> "text", name |-> n, placeholder |-> "",
    fieldType |-> "" ]

PageInputs ==
  { <<>>,
    << NamedField("user_email") >>,
    << NamedField("message") >>,
    << NamedField("user_email"), NamedField("message") >>,
    << NamedField("your-name"), NamedField("q") >>,
    << NamedField("user_email"), NamedField("message") >>
      \o [i \in 1..(MaxFill - 2) |-> NamedField("q")] }

PageButtons == { <<>>, << [text |-> "Go"] >> }

\* The formData of a page: up to MaxForms forms, each with its index
PageForms ==
  UNION { { [ i \in 1..n |->
                [ index |-> i - 1, inputs |-> ins[i], submitButtons |-> bs[i],
                  score |-> 0 ] ] :
            ins \in [1..n -> PageInputs], bs \in [1..n -> PageButtons] } :
          n \in 0..MaxForms }

\* analyzeForm: formData.map(form => this.categorizeForm(form))
CategorizeForms ==
  /\ via = "none"
  /\ analyzed' = [ i \in DOMAIN forms |-> categorizeForm(forms[i]) ]
  /\ via' = "categorized"
  /\ UNCHANGED << exceptSelection, forms, best >>

\* analyzeForm: this.findBestContactForm(analyzedForms)
FindBest ==
  /\ via = "categorized"
  /\ LET r == findBestContactForm(analyzed)
     IN /\ analyzed' = r.sorted
        /\ best' = r.form
        /\ via' = r.via
  /\ UNCHANGED << exceptSelection, forms >>

InitSelect ==
  /\ NoCall
  /\ browser = "null"
  /\ NoBatch
  /\ NoWorker
  /\ NoUrlCalls
  /\ NoFormCalls
  /\ forms \in PageForms
  /\ analyzed = <<>>
  /\ best = NoBest
  /\ via = "none"
  /\ NoStorage
  /\ NoMail
  /\ NoFinder
  /\ NoFill
  /\ NoConsent
  /\ NoClick
  /\ NoOutcome
  /\ NoSharing
  /\ NoTracking
  /\ NoUpsert
  /\ NoOverlap

NextSelect ==
  \/ CategorizeForms
  \/ FindBest

\* analyzeForm runs both steps one after the other, without waiting for
\* anything
\* findBestContactForm has returned
Selected == via \in {"empty", "threshold", "fallback", "none suitable"}

SpecSelect == InitSelect /\ [][NextSelect]_vars /\ WF_vars(NextSelect)

\* ------------------------------------------------------------ result store
\* The Results handed to saveResult
StoredResults ==
  { [ NoResult EXCEPT !.id = i, !.name = "Acme", !.status = st ] :
      i \in 1..MaxId, st \in Statuses }

\* What saveResult leaves alone
exceptSaveResult ==
  << pc, mode, target, company, page, searchPage, homepage, contactFormUrl, thrown,
     probeMessage, stages, analyzedUrl, marker, clicked, result, ret, rejected,
     saves, processedCompanies, runs, browser, batch, worker, urlCalls,
     formCalls, selection, mail, finder, fill, consent, click, detection,
     sharing, tracking, upsert, overlap >>

\* ResultsManager.saveResult, fs.writeFile resolving: the Result joins
\* this.results and the whole of this.results is written to the batch file
SaveResult ==
  /\ Len(results) < MaxSaved
  /\ \E r \in StoredResults :
       /\ results' = saveResult(results, r)
       /\ batchFile' = results'
       /\ lastSaved' = r.id
  /\ existsAnswer' = "none"
  /\ UNCHANGED << exceptSaveResult, rows >>

\* ResultsManager.saveResult, fs.writeFile rejecting: the catch logs the
\* error and the call resolves
SaveResultWriteFails ==
  /\ Len(results) < MaxSaved
  /\ \E r \in StoredResults :
       /\ results' = saveResult(results, r)
       /\ lastSaved' = r.id
  /\ existsAnswer' = "none"
  /\ UNCHANGED << exceptSaveResult, batchFile, rows >>

\* DatabaseLogger.recordExists(lastSaved)
RecordExists ==
  /\ lastSaved # 0
  /\ existsAnswer = "none"
  /\ existsAnswer' = IF lastSaved \in rows THEN "yes" ELSE "no"
  /\ UNCHANGED << exceptStorage, batchFile, rows, lastSaved >>

NextStore ==
  \/ SaveResult
  \/ SaveResultWriteFails
  \/ RecordExists

SpecStore == Init /\ [][NextStore]_vars

\* ------------------------------------------------------------- mailTool
\* A message is delivered to the mailbox
Arrive ==
  /\ mailbox < MaxMail
  /\ mailbox' = mailbox + 1
  /\ UNCHANGED << exceptMail, atStart, lastEmailCount, emails, pollPc,
                  emailCount, pollI >>

\* checkEmails, fired by the interval: connect, auth and stat answer
CheckEmails ==
  /\ pollPc = "idle"
  /\ emailCount' = mailbox
  /\ IF mailbox > lastEmailCount
     THEN pollPc' = "loop" /\ pollI' = lastEmailCount + 1
     ELSE pollPc' = "idle" /\ pollI' = pollI
  /\ UNCHANGED << exceptMail, mailbox, atStart, lastEmailCount, emails >>

\* The loop body: retr, simpleParser and saveEmailToDatabase resolve
Retrieve ==
  /\ pollPc = "loop"
  /\ pollI <= emailCount
  /\ emails' = Append(emails, pollI)
  /\ pollI' = pollI + 1
  /\ UNCHANGED << exceptMail, mailbox, atStart, lastEmailCount, pollPc,
                  emailCount >>

\* The loop body: retr (a timeout, a lost connection), simpleParser or
\* saveEmailToDatabase rejects, the inner catch logs it
RetrieveFails ==
  /\ pollPc = "loop"
  /\ pollI <= emailCount
  /\ pollI' = pollI + 1
  /\ UNCHANGED << exceptMail, mailbox, atStart, lastEmailCount, emails,
                  pollPc, emailCount >>

\* After the loop: lastEmailCount = emailCount; pop3.close()
Disconnect ==
  /\ pollPc = "loop"
  /\ pollI > emailCount
  /\ lastEmailCount' = emailCount
  /\ pollPc' = "idle"
  /\ UNCHANGED << exceptMail, mailbox, atStart, emails, emailCount, pollI >>

\* setupEmailListener: the baseline is the mailbox's count, or stays 0
\* when the first connection fails
InitMail ==
  /\ NoCall
  /\ browser = "null"
  /\ NoBatch
  /\ NoWorker
  /\ NoUrlCalls
  /\ NoFormCalls
  /\ NoSelection
  /\ NoStorage
  /\ mailbox \in 0..1
  /\ atStart = mailbox
  /\ lastEmailCount \in {0, mailbox}
  /\ emails = <<>>
  /\ pollPc = "idle"
  /\ emailCount = 0
  /\ pollI = 0
  /\ NoFinder
  /\ NoFill
  /\ NoConsent
  /\ NoClick
  /\ NoOutcome
  /\ NoSharing
  /\ NoTracking
  /\ NoUpsert
  /\ NoOverlap

Poll ==
  \/ CheckEmails
  \/ Retrieve
  \/ RetrieveFails
  \/ Disconnect

NextMail ==
  \/ Arrive
  \/ CheckEmails
  \/ Retrieve
  \/ RetrieveFails
  \/ Disconnect

\* setInterval fires checkEmails every 30 seconds, and every await of a
\* poll settles (send and retr have timeouts)
SpecMail == InitMail /\ [][NextMail]_vars /\ WF_vars(Poll)

\* ------------------------------------------------------- ContactPageFinder
\* ContactPageFinder.commonPaths
commonPaths ==
  << "/contact/", "/contact-us/", "/contactus/", "/get-in-touch/", "/contact",
     "/reach-us/", "/inquiry/", "/support/", "/contact-form/", "/connect/",
     "/touch/", "/enquiry/", "/enquiries/" >>

\* String.toLowerCase for the texts of the model
toLowerCase(t) ==
  CASE t = "About" -> "about"
    [] t = "Contact us" -> "contact us"
    [] t = "Contact" -> "contact"
    [] t = "Press contact" -> "press contact"
    [] t = "Careers" -> "careers"
    [] t = "Support" -> "support"
    [] t = "Inquiry" -> "inquiry"
    [] t = "News" -> "news"
    [] OTHER -> t

\* Whether a lower-cased text includes one of contactKeywords
includesContactKeyword(text) ==
  text \in {"contact us", "contact", "press contact", "support", "inquiry"}

\* Whether a lower-cased text includes one of excludeKeywords
includesExcludeKeyword(text) ==
  text \in {"press contact", "careers", "news"}

\* The anchors a homepage may hold: textContent, the text of the spans
\* inside, the aria-label
AnchorKinds ==
  { [ textContent |-> "About", spans |-> "", ariaLabel |-> "" ],
    [ textContent |-> "Contact us", spans |-> "", ariaLabel |-> "" ],
    [ textContent |-> "Press contact", spans |-> "", ariaLabel |-> "" ],
    [ textContent |-> "Careers", spans |-> "", ariaLabel |-> "Support" ],
    [ textContent |-> "", spans |-> "", ariaLabel |-> "Contact" ],
    [ textContent |-> "Inquiry", spans |-> "Inquiry", ariaLabel |-> "" ],
    [ textContent |-> "About", spans |-> "", ariaLabel |-> "News" ] }

\* anchor.href of the i-th anchor
LinkPaths == << "/link1", "/link2", "/link3", "/link4" >>

HrefAt(i) == << HTTPS, "acme.test", LinkPaths[i] >>

\* The links of a homepage, in document order
AnchorLists ==
  UNION { { [ i \in 1..n |->
                [ textContent |-> ks[i].textContent, spans |-> ks[i].spans,
                  ariaLabel |-> ks[i].ariaLabel, href |-> HrefAt(i) ] ] :
            ks \in [1..n -> AnchorKinds] } :
          n \in 0..MaxAnchors }

\* What page.evaluate makes of an anchor: the three lower-cased parts of
\* its text, which allText joins with spaces
linkText(a) ==
  << toLowerCase(a.textContent), toLowerCase(a.spans), toLowerCase(a.ariaLabel) >>

\* searchText.includes(keyword) for a keyword of the contact lists
hasContactKeyword(a) ==
  \E k \in 1..3 : includesContactKeyword(linkText(a)[k])

\* searchText.includes(keyword) for a keyword of excludeKeywords
isExcluded(a) ==
  \E k \in 1..3 : includesExcludeKeyword(linkText(a)[k])

\* findByHomepageLinks returning the first link with a contact keyword,
\* excluded or not
findByHomepageLinksNoExclusion(links) ==
  LET hits == { i \in DOMAIN links : hasContactKeyword(links[i]) }
  IN IF hits = {} THEN Null
     ELSE links[CHOOSE i \in hits : \A j \in hits : i <= j].href

\* ContactPageFinder.findByHomepageLinks once the homepage has loaded: the
\* loop over the links
findByHomepageLinks(links) ==
  LET hits == { i \in DOMAIN links :
                  hasContactKeyword(links[i]) /\ ~isExcluded(links[i]) }
  IN IF hits = {} THEN Null
     ELSE links[CHOOSE i \in hits : \A j \in hits : i <= j].href

\* findContactPage calls findByHomepageLinks: the homepage loads and a link
\* is returned
LinksFound ==
  /\ finderPc = "links"
  /\ findByHomepageLinks(anchors) # Null
  /\ byLinks' = findByHomepageLinks(anchors)
  /\ contactPage' = findByHomepageLinks(anchors)
  /\ finderPc' = "done"
  /\ UNCHANGED << exceptFinder, finderHome, anchors, probed, lastAnswer, threw >>

\* The homepage loads and no link is returned: findByDirectUrl is called
LinksMiss ==
  /\ finderPc = "links"
  /\ findByHomepageLinks(anchors) = Null
  /\ finderPc' = "direct"
  /\ UNCHANGED << exceptFinder, finderHome, anchors, byLinks, probed,
                  lastAnswer, threw, contactPage >>

\* goto or evaluate throws, the catch returns null: findByDirectUrl is
\* called
LinksFail ==
  /\ finderPc = "links"
  /\ finderPc' = "direct"
  /\ UNCHANGED << exceptFinder, finderHome, anchors, byLinks, probed,
                  lastAnswer, threw, contactPage >>

\* The URL findByDirectUrl navigates to next
testUrl == UrlOrigin(finderHome) \o << commonPaths[Len(probed) + 1] >>

\* A navigation that throws returning null from findByDirectUrl
DirectThrowsStops ==
  /\ finderPc = "direct"
  /\ Len(probed) < Len(commonPaths)
  /\ probed' = Append(probed, testUrl)
  /\ lastAnswer' = "throws"
  /\ threw' = TRUE
  /\ finderPc' = "done"
  /\ UNCHANGED << exceptFinder, finderHome, anchors, byLinks, contactPage >>

\* findByDirectUrl: the navigation answers with status 200
DirectHit ==
  /\ finderPc = "direct"
  /\ Len(probed) < Len(commonPaths)
  /\ probed' = Append(probed, testUrl)
  /\ lastAnswer' = "200"
  /\ contactPage' = testUrl
  /\ finderPc' = "done"
  /\ UNCHANGED << exceptFinder, finderHome, anchors, byLinks, threw >>

\* The navigation answers with another status, or with no response
DirectOther ==
  /\ finderPc = "direct"
  /\ Len(probed) < Len(commonPaths)
  /\ probed' = Append(probed, testUrl)
  /\ lastAnswer' = "404"
  /\ UNCHANGED << exceptFinder, finderHome, anchors, finderPc, byLinks, threw,
                  contactPage >>

\* The navigation throws (a timeout, a network error): the inner catch
\* logs it and the loop goes on
DirectThrows ==
  /\ finderPc = "direct"
  /\ Len(probed) < Len(commonPaths)
  /\ probed' = Append(probed, testUrl)
  /\ lastAnswer' = "throws"
  /\ threw' = TRUE
  /\ UNCHANGED << exceptFinder, finderHome, anchors, finderPc, byLinks,
                  contactPage >>

\* Every path was tried: findByDirectUrl returns null
DirectExhausted ==
  /\ finderPc = "direct"
  /\ Len(probed) = Len(commonPaths)
  /\ finderPc' = "done"
  /\ UNCHANGED << exceptFinder, finderHome, anchors, byLinks, probed,
                  lastAnswer, threw, contactPage >>

InitFinder ==
  /\ NoCall
  /\ browser = "null"
  /\ NoBatch
  /\ NoWorker
  /\ NoUrlCalls
  /\ NoFormCalls
  /\ NoSelection
  /\ NoStorage
  /\ NoMail
  /\ finderHome \in { << HTTPS, "acme.test", "/" >> }
  /\ anchors \in AnchorLists
  /\ finderPc = "links"
  /\ byLinks = Null
  /\ probed = <<>>
  /\ lastAnswer = "none"
  /\ threw = FALSE
  /\ contactPage = Null
  /\ NoFill
  /\ NoConsent
  /\ NoClick
  /\ NoOutcome
  /\ NoSharing
  /\ NoTracking
  /\ NoUpsert
  /\ NoOverlap

NextFinder ==
  \/ LinksFound
  \/ LinksMiss
  \/ LinksFail
  \/ DirectHit
  \/ DirectOther
  \/ DirectThrows
  \/ DirectExhausted

SpecFinder == InitFinder /\ [][NextFinder]_vars

\* ---------------------------------------------------- FormSubmitter: fill
\* this.testData, by key; a key it lacks gives undefined (the empty string)
testData(key) ==
  CASE key = "email" -> "test@example.com"
    [] key = "phone" -> "+1234567890"
    [] key = "website" -> "https://example.com"
    [] key = "message" -> "This is a test submission"
    [] key = "firstname" -> "Test"
    [] key = "lastname" -> "User"
    [] key = "fullname" -> "Test User"
    [] key = "company" -> "Test Company Inc."
    [] key = "subject" -> "General Inquiry"
    [] OTHER -> ""

\* fieldName.includes(part) for the names and ids of the model
nameIncludes(fieldName, part) ==
  part \in
    CASE fieldName = "user_email" -> {"email"}
      [] fieldName = "your-name" -> {"name"}
      [] fieldName = "first_name" -> {"first", "name"}
      [] fieldName = "last_name" -> {"last", "name"}
      [] fieldName = "company" -> {"company"}
      [] fieldName = "website" -> {"website"}
      [] fieldName = "subject" -> {"subject"}
      [] OTHER -> {}

\* FormSubmitter.getValueForField
getValueForField(in) ==
  LET fieldType == IF in.fieldType = "" THEN "text" ELSE in.fieldType
      fieldName == IF in.name # "" THEN in.name ELSE in.id
  IN IF nameIncludes(fieldName, "email") THEN testData("email")
     ELSE IF nameIncludes(fieldName, "phone") \/ nameIncludes(fieldName, "telephone")
       THEN testData("phone")
     ELSE IF nameIncludes(fieldName, "website") \/ nameIncludes(fieldName, "url")
       THEN testData("website")
     ELSE IF nameIncludes(fieldName, "first") \/ nameIncludes(fieldName, "firstname")
       THEN testData("firstname")
     ELSE IF nameIncludes(fieldName, "last") \/ nameIncludes(fieldName, "lastname")
       THEN testData("lastname")
     ELSE IF nameIncludes(fieldName, "name") THEN testData("fullname")
     ELSE IF nameIncludes(fieldName, "company") \/ nameIncludes(fieldName, "organisation")
             \/ nameIncludes(fieldName, "organization")
       THEN testData("company")
     ELSE IF nameIncludes(fieldName, "subject") \/ nameIncludes(fieldName, "title")
       THEN testData("subject")
     ELSE IF testData(fieldType) # "" THEN testData(fieldType)
     ELSE testData("message")

\* FormSubmitter.buildSelector: the element type and input type it selects
buildSelector(in) ==
  IF in.tagName = "textarea" THEN [ tagName |-> "textarea", type |-> "" ]
  ELSE IF in.type # "" THEN [ tagName |-> "input", type |-> in.type ]
  ELSE [ tagName |-> "input", type |-> "" ]

\* The controls a contact page may hold.  owner says whether the control
\* belongs to the candidate form; clickable, whether element.click() can
\* reach it (a hidden control cannot be clicked).
Controls ==
  { [ tagName |-> e[1], type |-> e[2], id |-> e[3], name |-> e[4],
      owner |-> o, clickable |-> c, value |-> "" ] :
      e \in { <<"input", "text", "", "">>, <<"input", "text", "f1", "">>,
              <<"input", "text", "f1", "q">>,
              <<"input", "text", "", "user_email">>, <<"input", "text", "", "q">>,
              <<"textarea", "textarea", "", "">>,
              <<"textarea", "textarea", "", "message">>,
              <<"input", "checkbox", "", "agree">> },
      o \in {"form", "other"}, c \in BOOLEAN }

\* page.$(selector): the first control of the document, in document order,
\* that the selector matches (0: null)
FirstMatch(d, Sel(_)) ==
  IF \E k \in DOMAIN d : Sel(d[k])
    THEN CHOOSE k \in DOMAIN d : Sel(d[k]) /\ \A j \in 1..(k - 1) : ~Sel(d[j])
    ELSE 0

\* The body the three fillFieldBy functions share: a missing element gives
\* false; click() on a control that cannot be clicked throws, which the
\* catch turns into false; otherwise the control is cleared and typed into.
typeInto(d, k, value) ==
  IF k = 0 \/ ~d[k].clickable
    THEN [ ok |-> FALSE, dom |-> d, target |-> 0 ]
    ELSE [ ok |-> TRUE, dom |-> [ d EXCEPT ![k].value = value ], target |-> k ]

\* FormSubmitter.fillFieldById: CSS.escape throws a ReferenceError where the
\* runtime has no global CSS, and the catch answers false
fillFieldById(d, css, id, value) ==
  IF ~css THEN [ ok |-> FALSE, dom |-> d, target |-> 0 ]
  ELSE LET ById(c) == c.id = id
       IN typeInto(d, FirstMatch(d, ById), value)

\* FormSubmitter.fillFieldByName
fillFieldByName(d, name, value) ==
  LET ByName(c) == c.name = name
  IN typeInto(d, FirstMatch(d, ByName), value)

\* FormSubmitter.fillFieldBySelector
fillFieldBySelector(d, selector, value) ==
  LET BySelector(c) ==
        /\ c.tagName = selector.tagName
        /\ selector.type # "" => c.type = selector.type
  IN typeInto(d, FirstMatch(d, BySelector), value)

\* FormAnalyzer's extraction for the candidate form: its visible controls,
\* categorized; el is the position of the control in the document
extractInputs(d) ==
  LET Mine == { k \in DOMAIN d : d[k].owner = "form" /\ d[k].clickable }
      Pick[S \in SUBSET Mine] ==
        IF S = {} THEN <<>>
        ELSE LET k == CHOOSE x \in S : \A y \in S : x <= y
                 f == [ tagName |-> d[k].tagName, type |-> d[k].type,
                        name |-> d[k].name, placeholder |-> "", fieldType |-> "" ]
             IN << [ tagName |-> d[k].tagName, type |-> d[k].type,
                     name |-> d[k].name, id |-> d[k].id,
                     fieldType |-> detectFieldType(f), el |-> k ] >>
                \o Pick[S \ {k}]
  IN Pick[Mine]

\* The documents whose candidate form, with a "Send" button, the analyzer
\* reports as the contact form
Doms ==
  { d \in UNION { [1..n -> Controls] : n \in 1..MaxControls } :
      LET ins == extractInputs(d)
      IN /\ ins # <<>>
         /\ calculateFormScore(ins, << [text |-> "Send"] >>) >= threshold }

\* submitForm calls fillFormFields(page, formData)
FillStart ==
  /\ fillPc = "idle"
  /\ \E d \in Doms, c \in BOOLEAN :
       /\ dom' = d
       /\ cssDefined' = c
       /\ fillInputs' = extractInputs(d)
  /\ fillI' = 1
  /\ fillPc' = "field"
  /\ UNCHANGED << exceptFill, filled, tried, lastTarget, written, filledCount,
                  fillResults >>

\* A checkbox or a radio button is left to handleAcceptanceCheckboxes
SkipField ==
  /\ fillPc = "field"
  /\ fillI <= Len(fillInputs)
  /\ fillInputs[fillI].type \in {"checkbox", "radio"}
  /\ fillI' = fillI + 1
  /\ UNCHANGED << exceptFill, dom, cssDefined, fillInputs, fillPc, filled,
                  tried, lastTarget, written, filledCount, fillResults >>

\* Strategy 2 running whether or not strategy 1 filled the field
FillByNameAlways ==
  /\ fillPc = "name"
  /\ LET in == fillInputs[fillI]
         r == fillFieldByName(dom, in.name, getValueForField(in))
     IN IF in.name # ""
          THEN /\ dom' = r.dom
               /\ filled' = r.ok
               /\ lastTarget' = r.target
               /\ tried' = Append(tried, [ by |-> "name", ok |-> r.ok ])
          ELSE UNCHANGED << dom, filled, lastTarget, tried >>
  /\ fillPc' = "selector"
  /\ UNCHANGED << exceptFill, cssDefined, fillInputs, fillI, written,
                  filledCount, fillResults >>

\* let filled = false; strategy 1: fill by id
FillById ==
  /\ fillPc = "field"
  /\ fillI <= Len(fillInputs)
  /\ fillInputs[fillI].type \notin {"checkbox", "radio"}
  /\ LET in == fillInputs[fillI]
         r == fillFieldById(dom, cssDefined, in.id, getValueForField(in))
     IN IF in.id # ""
          THEN /\ dom' = r.dom
               /\ filled' = r.ok
               /\ lastTarget' = r.target
               /\ tried' = << [ by |-> "id", ok |-> r.ok ] >>
          ELSE /\ filled' = FALSE
               /\ lastTarget' = 0
               /\ tried' = <<>>
               /\ UNCHANGED dom
  /\ fillPc' = "name"
  /\ UNCHANGED << exceptFill, cssDefined, fillInputs, fillI, written,
                  filledCount, fillResults >>

\* Strategy 2: fill by name
FillByName ==
  /\ fillPc = "name"
  /\ LET in == fillInputs[fillI]
         r == fillFieldByName(dom, in.name, getValueForField(in))
     IN IF ~filled /\ in.name # ""
          THEN /\ dom' = r.dom
               /\ filled' = r.ok
               /\ lastTarget' = r.target
               /\ tried' = Append(tried, [ by |-> "name", ok |-> r.ok ])
          ELSE UNCHANGED << dom, filled, lastTarget, tried >>
  /\ fillPc' = "selector"
  /\ UNCHANGED << exceptFill, cssDefined, fillInputs, fillI, written,
                  filledCount, fillResults >>

\* Strategy 3: fill by selector
FillBySelector ==
  /\ fillPc = "selector"
  /\ LET in == fillInputs[fillI]
         r == fillFieldBySelector(dom, buildSelector(in), getValueForField(in))
     IN IF ~filled
          THEN /\ dom' = r.dom
               /\ filled' = r.ok
               /\ lastTarget' = r.target
               /\ tried' = Append(tried, [ by |-> "selector", ok |-> r.ok ])
          ELSE UNCHANGED << dom, filled, lastTarget, tried >>
  /\ fillPc' = "count"
  /\ UNCHANGED << exceptFill, cssDefined, fillInputs, fillI, written,
                  filledCount, fillResults >>

\* if (filled) filledCount++, and the loop goes to the next input
CountField ==
  /\ fillPc = "count"
  /\ filledCount' = IF filled THEN filledCount + 1 ELSE filledCount
  /\ written' = IF filled THEN Append(written, lastTarget) ELSE written
  /\ fillI' = fillI + 1
  /\ fillPc' = "field"
  /\ UNCHANGED << exceptFill, dom, cssDefined, fillInputs, filled, tried,
                  lastTarget, fillResults >>

\* return { success: filledCount > 0, filledCount, totalFields }
FillReturn ==
  /\ fillPc = "field"
  /\ fillI > Len(fillInputs)
  /\ fillResults' = [ success |-> filledCount > 0, filledCount |-> filledCount,
                      totalFields |-> Len(fillInputs) ]
  /\ fillPc' = "done"
  /\ UNCHANGED << exceptFill, dom, cssDefined, fillInputs, fillI, filled,
                  tried, lastTarget, written, filledCount >>

NextFill ==
  \/ FillStart
  \/ SkipField
  \/ FillById
  \/ FillByName
  \/ FillBySelector
  \/ CountField
  \/ FillReturn

SpecFill == Init /\ [][NextFill]_vars

\* ------------------------------------------------- FormSubmitter: consent
\* The checkboxes and radio buttons a page may hold.  privacy says whether
\* the name, id or label of a checkbox holds one of privacyKeywords.
Boxes ==
  { [ type |-> "checkbox", name |-> "", checked |-> c, disabled |-> d, privacy |-> p ] :
      c \in BOOLEAN, d \in BOOLEAN, p \in BOOLEAN }
  \cup
  { [ type |-> "radio", name |-> n, checked |-> c, disabled |-> d, privacy |-> FALSE ] :
      n \in {"", "plan"}, c \in BOOLEAN, d \in BOOLEAN }

\* The pages: of the radio buttons that share a name at most one is checked
BoxLists ==
  { b \in UNION { [1..n -> Boxes] : n \in 1..MaxBoxes } :
      \A j \in DOMAIN b : \A k \in DOMAIN b :
        (/\ j # k
         /\ b[j].type = "radio" /\ b[k].type = "radio"
         /\ b[j].name # "" /\ b[j].name = b[k].name
         /\ b[j].checked) => ~b[k].checked }

\* control.checked = true
assignChecked(c) == [ c EXCEPT !.checked = TRUE ]

\* The activation behaviour of a click event, which control.click() fires
\* and which a dispatched MouseEvent('click') has as well: a checkbox
\* toggles, a radio button becomes the checked one
activate(c) ==
  IF c.type = "checkbox" THEN [ c EXCEPT !.checked = ~c.checked ]
  ELSE [ c EXCEPT !.checked = TRUE ]

\* The checkbox branch without its dispatched MouseEvent
acceptCheckboxClickOnce(c) ==
  IF ~c.checked /\ ~c.disabled THEN activate(assignChecked(c)) ELSE c

\* handleAcceptanceCheckboxes on one checkbox: checked = true, click(), the
\* change and input events, then a dispatched click
acceptCheckbox(c) ==
  IF ~c.checked /\ ~c.disabled
    THEN activate(activate(assignChecked(c)))
    ELSE c

\* radio.name || 'unnamed'
radioGroup(c) == IF c.name = "" THEN "unnamed" ELSE c.name

\* group.some(radio => radio.checked)
hasSelection(b, g) ==
  \E k \in DOMAIN b : b[k].type = "radio" /\ radioGroup(b[k]) = g /\ b[k].checked

\* group.find(radio => !radio.disabled), as a position (0: undefined)
firstAvailable(b, g) ==
  LET Free == { k \in DOMAIN b :
                  b[k].type = "radio" /\ radioGroup(b[k]) = g /\ ~b[k].disabled }
  IN IF Free = {} THEN 0 ELSE CHOOSE k \in Free : \A j \in Free : k <= j

\* FormSubmitter.handleAcceptanceCheckboxes: what its evaluate does to the
\* page
handleAcceptanceCheckboxes(b) ==
  [ k \in DOMAIN b |->
      IF b[k].type = "checkbox" THEN acceptCheckbox(b[k])
      ELSE IF ~hasSelection(b, radioGroup(b[k]))
              /\ k = firstAvailable(b, radioGroup(b[k]))
        THEN activate(activate(assignChecked(b[k])))
        ELSE b[k] ]

\* FormSubmitter.ensurePrivacyCheckboxChecked: checked = true, click(), the
\* change and input events
ensurePrivacyCheckboxChecked(b) ==
  [ k \in DOMAIN b |->
      IF b[k].type = "checkbox" /\ b[k].privacy /\ ~b[k].checked /\ ~b[k].disabled
        THEN activate(assignChecked(b[k]))
        ELSE b[k] ]

\* submitForm reaches the consent step
ConsentStart ==
  /\ consentPc = "idle"
  /\ \E b \in BoxLists : boxesBefore' = b /\ boxes' = b
  /\ consentPc' = "acceptance"
  /\ UNCHANGED << exceptConsent, acceptanceThrew >>

\* await this.handleAcceptanceCheckboxes(page)
HandleAcceptance ==
  /\ consentPc = "acceptance"
  /\ boxes' = handleAcceptanceCheckboxes(boxes)
  /\ consentPc' = "privacy"
  /\ UNCHANGED << exceptConsent, boxesBefore, acceptanceThrew >>

\* Its evaluate throws: the catch answers 0 and the page is as it was
HandleAcceptanceThrows ==
  /\ consentPc = "acceptance"
  /\ acceptanceThrew' = TRUE
  /\ consentPc' = "privacy"
  /\ UNCHANGED << exceptConsent, boxesBefore, boxes >>

\* await this.ensurePrivacyCheckboxChecked(page)
EnsurePrivacy ==
  /\ consentPc = "privacy"
  /\ boxes' = ensurePrivacyCheckboxChecked(boxes)
  /\ consentPc' = "done"
  /\ UNCHANGED << exceptConsent, boxesBefore, acceptanceThrew >>

NextConsent ==
  \/ ConsentStart
  \/ HandleAcceptance
  \/ HandleAcceptanceThrows
  \/ EnsurePrivacy

SpecConsent == Init /\ [][NextConsent]_vars

\* --------------------------------------------------- FormSubmitter: click
\* The buttons a contact page may hold: submit inputs, submit buttons,
\* buttons without a type and input[type="button"] elements; owner says
\* whether the button belongs to the candidate form.
Clickables ==
  { [ kind |-> k, id |-> "", text |-> t, disabled |-> d, owner |-> o ] :
      k \in {"input-submit", "button-submit", "button", "input-button"},
      t \in {"Send", "Next"}, d \in BOOLEAN, o \in {"form", "other"} }
  \cup
  { [ kind |-> "button-submit", id |-> "b1", text |-> t, disabled |-> d, owner |-> o ] :
      t \in {"Send", "Next"}, d \in BOOLEAN, o \in {"form", "other"} }

ClickableLists == UNION { [1..n -> Clickables] : n \in 1..MaxButtons }

\* submitKeywords.some(keyword => text.includes(keyword)) for the button
\* texts of the model
isSubmitButton(c) == c.text \in {"Send"}

\* FormAnalyzer's extraction of the candidate form's submit controls:
\* button[type="submit"], input[type="submit"], button:not([type])
extractButtons(cs) ==
  LET Mine == { k \in DOMAIN cs :
                  /\ cs[k].owner = "form"
                  /\ cs[k].kind \in {"input-submit", "button-submit", "button"} }
      Pick[S \in SUBSET Mine] ==
        IF S = {} THEN <<>>
        ELSE LET k == CHOOSE x \in S : \A y \in S : x <= y
             IN << [ id |-> cs[k].id, text |-> cs[k].text, el |-> k ] >>
                \o Pick[S \ {k}]
  IN Pick[Mine]

\* The first control of the document, of the kinds a selector names, that
\* is not disabled and whose text holds a submit keyword (0: none)
firstKeywordMatch(cs, kinds) ==
  LET Hits == { k \in DOMAIN cs :
                  cs[k].kind \in kinds /\ ~cs[k].disabled /\ isSubmitButton(cs[k]) }
  IN IF Hits = {} THEN 0 ELSE CHOOSE k \in Hits : \A j \in Hits : k <= j

\* The same scan without the test of btn.disabled
firstKeywordMatchAnyState(cs, kinds) ==
  LET Hits == { k \in DOMAIN cs : cs[k].kind \in kinds /\ isSubmitButton(cs[k]) }
  IN IF Hits = {} THEN 0 ELSE CHOOSE k \in Hits : \A j \in Hits : k <= j

\* document.getElementById(id), as a position (0: null)
getElementById(cs, id) ==
  LET Hits == { k \in DOMAIN cs : cs[k].id = id }
  IN IF Hits = {} THEN 0 ELSE CHOOSE k \in Hits : \A j \in Hits : k <= j

\* submitForm calls clickSubmitButton(page, formData)
ClickStart ==
  /\ clickPc = "idle"
  /\ \E cs \in ClickableLists :
       /\ clickables' = cs
       /\ candidateButtons' = extractButtons(cs)
  /\ clickPc' = "check"
  /\ UNCHANGED << exceptClick, scans, clickedEls, clickAnswer, submitAnswer >>

\* if (!submitButtons || submitButtons.length === 0)
ClickNoButtons ==
  /\ clickPc = "check"
  /\ candidateButtons = <<>>
  /\ clickAnswer' = [ success |-> FALSE, error |-> "No submit button found" ]
  /\ clickPc' = "returned"
  /\ UNCHANGED << exceptClick, clickables, candidateButtons, scans, clickedEls,
                  submitAnswer >>

\* One of its two evaluate calls throws
ClickThrows ==
  /\ clickPc = "check"
  /\ candidateButtons # <<>>
  /\ clickAnswer' = [ success |-> FALSE, error |-> "Execution context was destroyed" ]
  /\ clickPc' = "returned"
  /\ UNCHANGED << exceptClick, clickables, candidateButtons, scans, clickedEls,
                  submitAnswer >>

\* A click: the control is clicked and the evaluate returns true
Clicks(k, strategy) ==
  /\ clickedEls' = Append(clickedEls, k)
  /\ scans' = Append(scans, strategy)
  /\ clickAnswer' = [ success |-> TRUE, error |-> "" ]
  /\ clickPc' = "returned"

\* No click: the next strategy is tried
Passes(strategy, next) ==
  /\ scans' = Append(scans, strategy)
  /\ clickPc' = next
  /\ UNCHANGED << clickedEls, clickAnswer >>

\* Strategy 1: if (btnInfo.id) getElementById
ClickById ==
  /\ clickPc = "check"
  /\ candidateButtons # <<>>
  /\ LET btnInfo == candidateButtons[1]
         btn == getElementById(clickables, btnInfo.id)
     IN IF btnInfo.id # "" /\ btn # 0 /\ ~clickables[btn].disabled
          THEN Clicks(btn, "id")
          ELSE Passes("id", "inputs")
  /\ UNCHANGED << exceptClick, clickables, candidateButtons, submitAnswer >>

\* Strategy 2 clicking a disabled control
ScanSubmitInputsAnyState ==
  /\ clickPc = "inputs"
  /\ LET btn == firstKeywordMatchAnyState(clickables, {"input-submit"})
     IN IF btn # 0 THEN Clicks(btn, "inputs") ELSE Passes("inputs", "buttons")
  /\ UNCHANGED << exceptClick, clickables, candidateButtons, submitAnswer >>

\* Strategy 2: input[type="submit"]
ScanSubmitInputs ==
  /\ clickPc = "inputs"
  /\ LET btn == firstKeywordMatch(clickables, {"input-submit"})
     IN IF btn # 0 THEN Clicks(btn, "inputs") ELSE Passes("inputs", "buttons")
  /\ UNCHANGED << exceptClick, clickables, candidateButtons, submitAnswer >>

\* Strategy 3: button[type="submit"]
ScanSubmitButtons ==
  /\ clickPc = "buttons"
  /\ LET btn == firstKeywordMatch(clickables, {"button-submit"})
     IN IF btn # 0 THEN Clicks(btn, "buttons") ELSE Passes("buttons", "all")
  /\ UNCHANGED << exceptClick, clickables, candidateButtons, submitAnswer >>

\* Strategy 4: button, input[type="button"]; then return false
ScanAllButtons ==
  /\ clickPc = "all"
  /\ LET btn == firstKeywordMatch(clickables, {"button-submit", "button", "input-button"})
     IN IF btn # 0
          THEN Clicks(btn, "all")
          ELSE /\ scans' = Append(scans, "all")
               /\ clickAnswer' = [ success |-> FALSE,
                                   error |-> "Could not click submit button" ]
               /\ clickPc' = "returned"
               /\ UNCHANGED clickedEls
  /\ UNCHANGED << exceptClick, clickables, candidateButtons, submitAnswer >>

\* submitForm after clickSubmitButton: a failure is returned with its
\* error; a click leads to the outcome detection
SubmitAfterClick ==
  /\ clickPc = "returned"
  /\ submitAnswer' =
       IF ~clickAnswer.success
         THEN [ NoSubmission EXCEPT !.present = TRUE, !.error = clickAnswer.error ]
         ELSE [ NoSubmission EXCEPT !.present = TRUE, !.success = TRUE ]
  /\ clickPc' = "done"
  /\ UNCHANGED << exceptClick, clickables, candidateButtons, scans, clickedEls,
                  clickAnswer >>

NextClick ==
  \/ ClickStart
  \/ ClickNoButtons
  \/ ClickThrows
  \/ ClickById
  \/ ScanSubmitInputs
  \/ ScanSubmitButtons
  \/ ScanAllButtons
  \/ SubmitAfterClick

SpecClick == Init /\ [][NextClick]_vars

\* ------------------------------------------------- FormSubmitter: outcome
\* The URLs of one site's contact page
ContactUrls ==
  { "http://acme.test/contact", "https://acme.test/contact",
    "https://acme.test/contact/", "https://acme.test/contact?sent=1",
    "https://acme.test/thanks" }

\* Where page.goto(u) may settle: at u, or where the site redirects u to
Landings(u) ==
  {u}
  \cup (IF u = "http://acme.test/contact" THEN {"https://acme.test/contact"} ELSE {})
  \cup (IF u \in {"http://acme.test/contact", "https://acme.test/contact"}
          THEN {"https://acme.test/contact/"} ELSE {})

\* finalUrl.includes('thank') || ... || finalUrl.includes('submitted')
isThankYouPage(u) == u = "https://acme.test/thanks"

\* FormSubmitter.detectSuccessResponse
detectSuccessResponse(hasSuccessKeyword, final, originalUrl) ==
  LET urlChanged == final # originalUrl
  IN hasSuccessKeyword \/ isThankYouPage(final) \/ urlChanged

\* submitForm(url, formData, page)
OutcomeStart ==
  /\ outcomePc = "idle"
  /\ submitUrl' \in ContactUrls
  /\ outcomePc' = "goto"
  /\ UNCHANGED << exceptDetection, preUrl, finalUrl, successPhrase, detected >>

\* await page.goto(url): the page settles, after redirects if any
OutcomeGoto ==
  /\ outcomePc = "goto"
  /\ preUrl' \in Landings(submitUrl)
  /\ outcomePc' = "click"
  /\ UNCHANGED << exceptDetection, submitUrl, finalUrl, successPhrase, detected >>

\* The submit click and the wait: the page stays or moves, and shows a
\* success phrase or not
OutcomeClick ==
  /\ outcomePc = "click"
  /\ finalUrl' \in ContactUrls
  /\ successPhrase' \in BOOLEAN
  /\ outcomePc' = "detect"
  /\ UNCHANGED << exceptDetection, submitUrl, preUrl, detected >>

\* const successDetected = this.detectSuccessResponse(pageContent, finalUrl, url)
OutcomeDetect ==
  /\ outcomePc = "detect"
  /\ detected' = detectSuccessResponse(successPhrase, finalUrl, submitUrl)
  /\ outcomePc' = "done"
  /\ UNCHANGED << exceptDetection, submitUrl, preUrl, finalUrl, successPhrase >>

NextOutcome ==
  \/ OutcomeStart
  \/ OutcomeGoto
  \/ OutcomeClick
  \/ OutcomeDetect

SpecOutcome == Init /\ [][NextOutcome]_vars

\* ------------------------------------ worker.js: concurrent processJob calls
\* queue.process(concurrency, ...) runs up to `concurrency` processJob calls
\* at a time on one event loop; each action below is the stretch of one call
\* between two awaits.

\* The queue hands job j to processJob, which reaches initProcessor
JobStarts(j) ==
  /\ jobPc[j] = "queued"
  /\ jobPc' = [ jobPc EXCEPT ![j] = "initProcessor" ]
  /\ UNCHANGED << exceptSharing, sharedProcessor, sharedBrowser, startedWith >>

\* initProcessor finding processor null: it assigns the new processor and
\* awaits its init(), which awaits puppeteer.launch
InitProcessorCreates(j) ==
  /\ jobPc[j] = "initProcessor"
  /\ sharedProcessor = "null"
  /\ sharedProcessor' = "created"
  /\ jobPc' = [ jobPc EXCEPT ![j] = "init" ]
  /\ UNCHANGED << exceptSharing, sharedBrowser, startedWith >>

\* initProcessor finding processor set: it returns it at once
InitProcessorReturns(j) ==
  /\ jobPc[j] = "initProcessor"
  /\ sharedProcessor # "null"
  /\ jobPc' = [ jobPc EXCEPT ![j] = "processCompany" ]
  /\ UNCHANGED << exceptSharing, sharedProcessor, sharedBrowser, startedWith >>

\* puppeteer.launch resolves: init() sets this.browser and returns
LaunchResolves(j) ==
  /\ jobPc[j] = "init"
  /\ sharedBrowser' = "open"
  /\ jobPc' = [ jobPc EXCEPT ![j] = "processCompany" ]
  /\ UNCHANGED << exceptSharing, sharedProcessor, startedWith >>

\* puppeteer.launch rejects: init() throws, processJob throws the error on
\* and the job has failed; processor stays assigned
LaunchRejects(j) ==
  /\ jobPc[j] = "init"
  /\ jobPc' = [ jobPc EXCEPT ![j] = "failed" ]
  /\ UNCHANGED << exceptSharing, sharedProcessor, sharedBrowser, startedWith >>

\* proc.processCompany(...) is called and runs with the browser it finds:
\* with none, this.browser.newPage() throws and the Result is an ERROR
ProcessCompanyCalled(j) ==
  /\ jobPc[j] = "processCompany"
  /\ startedWith' = [ startedWith EXCEPT ![j] = sharedBrowser ]
  /\ jobPc' = [ jobPc EXCEPT ![j] = IF sharedBrowser = "open" THEN "processed" ELSE "error" ]
  /\ UNCHANGED << exceptSharing, sharedProcessor, sharedBrowser >>

NextSharing ==
  \E j \in 1..MaxJobs :
    \/ JobStarts(j)
    \/ InitProcessorCreates(j)
    \/ InitProcessorReturns(j)
    \/ LaunchResolves(j)
    \/ LaunchRejects(j)
    \/ ProcessCompanyCalled(j)

SpecSharing == Init /\ [][NextSharing]_vars

\* ------------------------------------------- ProcessTracker: concurrent saves
\* ProcessTracker.save: the array it hands to JSON.stringify, one entry per
\* key of the map
saveData(m) ==
  LET Pick[S \in SUBSET DOMAIN m] ==
        IF S = {} THEN <<>>
        ELSE LET i == CHOOSE x \in S : \A y \in S : x <= y
             IN << [ id |-> i, status |-> m[i].status, url |-> m[i].url ] >>
                \o Pick[S \ {i}]
  IN Pick[DOMAIN m]

\* A worker process starts: ContactFormProcessor.init loads the file into
\* its own tracker
TrackerLoads(w) ==
  /\ ~trackerLoaded[w]
  /\ trackerLoaded' = [ trackerLoaded EXCEPT ![w] = TRUE ]
  /\ trackerMap' = [ trackerMap EXCEPT ![w] = load(trackerFile) ]
  /\ UNCHANGED << exceptTracking, trackerFile, pendingSaves, savedStatus,
                  trackerCalls >>

\* saveProcessedCompany(companyId, status, url) up to the first await of
\* save(): the entry is set in the map and the array to write is built
SaveCalled(w, companyId, status) ==
  /\ trackerLoaded[w]
  /\ trackerCalls < MaxCalls
  /\ LET m == saveProcessedCompany(trackerMap[w], companyId, status, Null)
     IN /\ trackerMap' = [ trackerMap EXCEPT ![w] = m ]
        /\ pendingSaves' =
             pendingSaves \cup
               { [ worker |-> w, call |-> trackerCalls + 1, data |-> saveData(m) ] }
  /\ savedStatus' =
       [ i \in DOMAIN savedStatus \cup {companyId} |->
           IF i = companyId THEN status ELSE savedStatus[i] ]
  /\ trackerCalls' = trackerCalls + 1
  /\ UNCHANGED << exceptTracking, trackerFile, trackerLoaded >>

\* The rest of a save(): mkdir, then writeFile replaces the file with the
\* array built at the call
WriteCompletes(s) ==
  /\ s \in pendingSaves
  /\ trackerFile' = s.data
  /\ pendingSaves' = pendingSaves \ {s}
  /\ UNCHANGED << exceptTracking, trackerLoaded, trackerMap, savedStatus,
                  trackerCalls >>

NextTracking ==
  \/ \E w \in 1..MaxWorkers : TrackerLoads(w)
  \/ \E w \in 1..MaxWorkers, i \in Ids, s \in {"SUCCESS", "ERROR"} : SaveCalled(w, i, s)
  \/ \E s \in pendingSaves : WriteCompletes(s)

SpecTracking == Init /\ [][NextTracking]_vars

\* ----------------------------------------- DatabaseLogger: concurrent upserts
\* logResult(result) is called: it awaits recordExists(result.id)
LogResultCalled(c, i, s) ==
  /\ logCalls[c].pc = "idle"
  /\ logCalls' = [ logCalls EXCEPT ![c] =
                     [ pc |-> "recordExists", id |-> i, status |-> s, exists |-> FALSE ] ]
  /\ UNCHANGED << exceptUpsert, tableRows, finishedLogs >>

\* recordExists: the SELECT runs and its callback resolves with !!row
RecordExistsResolves(c) ==
  /\ logCalls[c].pc = "recordExists"
  /\ logCalls' = [ logCalls EXCEPT ![c].pc = "write",
                                   ![c].exists = (logCalls[c].id \in DOMAIN tableRows) ]
  /\ UNCHANGED << exceptUpsert, tableRows, finishedLogs >>

\* insertResult: the INSERT runs; contact_id is UNIQUE, so a row that is
\* there by now makes it fail, and logResult throws the error on
InsertResult(c) ==
  /\ logCalls[c].pc = "write"
  /\ ~logCalls[c].exists
  /\ IF logCalls[c].id \in DOMAIN tableRows
       THEN /\ logCalls' = [ logCalls EXCEPT ![c].pc = "threw" ]
            /\ UNCHANGED tableRows
       ELSE /\ logCalls' = [ logCalls EXCEPT ![c].pc = "done" ]
            /\ tableRows' =
                 [ i \in DOMAIN tableRows \cup {logCalls[c].id} |->
                     IF i = logCalls[c].id THEN logCalls[c].status ELSE tableRows[i] ]
  /\ finishedLogs' = Append(finishedLogs, c)
  /\ UNCHANGED exceptUpsert

\* updateResult: the UPDATE ... WHERE contact_id = ? runs
UpdateResult(c) ==
  /\ logCalls[c].pc = "write"
  /\ logCalls[c].exists
  /\ logCalls' = [ logCalls EXCEPT ![c].pc = "done" ]
  /\ tableRows' =
       [ i \in DOMAIN tableRows |->
           IF i = logCalls[c].id THEN logCalls[c].status ELSE tableRows[i] ]
  /\ finishedLogs' = Append(finishedLogs, c)
  /\ UNCHANGED exceptUpsert

NextUpsert ==
  \/ \E c \in 1..MaxCalls, i \in Ids, s \in {"SUCCESS", "ERROR"} : LogResultCalled(c, i, s)
  \/ \E c \in 1..MaxCalls : RecordExistsResolves(c)
  \/ \E c \in 1..MaxCalls : InsertResult(c)
  \/ \E c \in 1..MaxCalls : UpdateResult(c)

SpecUpsert == Init /\ [][NextUpsert]_vars

Next ==
  \/ Start
  \/ NewPageFails
  \/ NewPageOk
  \/ DetectSearch
  \/ DetectFound
  \/ DetectMiss
  \/ ProbeCertificate
  \/ ProbeFails
  \/ ProbeOk
  \/ LocateFound
  \/ LocateMiss
  \/ AnalyzeMiss
  \/ AnalyzeBest
  \/ Submit
  \/ Catch
  \/ Finally

Spec == Init /\ [][Next]_vars

\* ------------------------------------------------------------------ claims
NonBlank(s) == ~IsFalsy(s) /\ Trim(s) # <<>>

\* C1: one invocation of processCompany calls saveResult exactly once, so
\* that the store grows by exactly one Result, returns the Result it saved,
\* and that Result's status is SUCCESS, FAILED, SKIPPED or ERROR.
ExactlyOneResult ==
  /\ saves <= 1
  /\ Len(results) + 1 = runs + saves \/ runs = 0
  /\ pc = "done" =>
       /\ saves = 1
       /\ ret = result
       /\ ret.status \in Statuses
       /\ results[Len(results)] = simplifiedResult(ret)

WitnessExactlyOneResult ==
  /\ pc = "done"
  /\ runs = MaxRuns
  /\ saves = 1
  /\ ret.status = "FAILED"
  /\ ret.submission.hasCaptcha

\* C2: processCompany never rejects: whatever was thrown on the way, the
\* caller gets a Result, and its status is ERROR when something was thrown.
NeverRejects ==
  /\ ~rejected
  /\ pc = "done" => ret # NoResult
  /\ pc = "done" /\ thrown # "" => ret.status = "ERROR"

WitnessNeverRejects ==
  /\ pc = "done"
  /\ mode = "queue"
  /\ thrown = "Navigation timeout of 15000 ms exceeded"
  /\ ret.status = "ERROR"

\* C3: when processCompany has delivered its Result, the page it opened is
\* not open any more, whatever the status.
PageClosedOnExit ==
  /\ pc = "done" => page # "open"
  /\ ret # NoResult => page # "open"

WitnessPageClosedOnExit ==
  /\ pc = "done"
  /\ page = "closed"
  /\ ret.status = "ERROR"

\* C4: a probe that fails with a TLS/certificate error ends in SKIPPED with
\* the certificate message and no contact_form_url, and no stage is invoked.
CertificateFailureSkips ==
  probeMessage \in TlsMessages =>
    /\ stages = {}
    /\ pc = "done" =>
         /\ ret.status = "SKIPPED"
         /\ simplifiedResult(ret).message = "SSL/Certificate error - site unreachable"
         /\ ret.contact_form_url = Null

WitnessCertificateFailureSkips ==
  /\ pc = "done"
  /\ probeMessage = "net::ERR_SSL_PROTOCOL_ERROR"
  /\ NonBlank(company.contact_url)
  /\ ret.status = "SKIPPED"

\* C5: a Target with a non-empty contact URL (a string that is a URL) never
\* has the locator invoked; the analyzer runs on the supplied contact URL,
\* which is the Result's contact_form_url, in direct mode and in queue mode.
SuppliedContactUrlSkipsDiscovery ==
  NonBlank(target.contact_url) /\ normalizeUrl(target.contact_url) # Null =>
    /\ "locator" \notin stages
    /\ "analyzer" \in stages =>
         analyzedUrl \in {target.contact_url, normalizeUrl(target.contact_url)}
    /\ pc = "done" /\ "analyzer" \in stages =>
         ret.contact_form_url = analyzedUrl

\* C6: with a homepage string that is absent, empty or not a URL, nothing
\* detected by name and no contact URL supplied, the Result is ERROR and no
\* stage was invoked.
UnresolvableHomepageIsError ==
  /\ IsFalsy(company.url) \/ normalizeUrl(company.url) = Null
  /\ homepage = Null
  /\ ~NonBlank(company.contact_url)
  => /\ stages = {}
     /\ pc = "done" => ret.status = "ERROR"

WitnessUnresolvableHomepageIsError ==
  /\ pc = "done"
  /\ company.url = <<SP>>
  /\ thrown = InvalidUrlMessage
  /\ ret.status = "ERROR"

\* C7: when the locator returned absent (it was invoked and the analyzer
\* was not) or the analyzer reported no best form (it was invoked and the
\* submitter was not), the Result is SKIPPED and no later stage ran.
StageMissSkips ==
  pc = "done" =>
    /\ "locator" \in stages /\ "analyzer" \notin stages =>
         ret.status = "SKIPPED" /\ "submitter" \notin stages
    /\ "analyzer" \in stages /\ "submitter" \notin stages =>
         ret.status = "SKIPPED"

WitnessStageMissSkips ==
  /\ pc = "done"
  /\ stages = {"locator", "analyzer"}
  /\ ret.status = "SKIPPED"
  /\ ret.contact_form_url = LinkedContactUrl

\* C8: once the submitter was invoked, the Result is SUCCESS exactly when
\* the submit click succeeded, and FAILED otherwise.
SuccessIffClicked ==
  pc = "done" /\ "submitter" \in stages =>
    /\ ret.status \in {"SUCCESS", "FAILED"}
    /\ ret.status = "SUCCESS" <=> clicked

\* C9: a Result that is not SUCCESS holds the homepage that was resolved
\* and the contact URL that was determined before the pipeline ended.
PartialProgressPreserved ==
  pc = "done" /\ ret.status # "SUCCESS" =>
    /\ homepage # Null => ret.homepage = homepage
    /\ contactFormUrl # Null => ret.contact_form_url = contactFormUrl

\* C10: the result store holds at most one Result per Target id, however
\* often a Target is run.
OneResultPerTarget ==
  \A i, j \in 1..Len(results) : results[i].id = results[j].id => i = j

\* C11: a Target whose id the tracker held when it was loaded is not
\* processed again: as long as nothing was saved since the load, no page is
\* opened and no stage is invoked for a company whose id the tracker holds.
TrackedTargetNotReprocessed ==
  /\ batchPc = "loop"
  /\ Len(results) = 0
  /\ pc # "idle"
  /\ company.id \in DOMAIN processedCompanies
  => /\ page = "null"
     /\ stages = {}

\* C12: when the contact page shows a challenge widget, submitForm reports
\* hasCaptcha = true and success = false whatever the form and whatever the
\* outcome of filling it, and the submit control is not clicked.
CaptchaAlwaysReported ==
  pc = "done" /\ "submitter" \in stages /\ marker =>
    /\ ret.submission.hasCaptcha
    /\ ~ret.submission.success
    /\ ~clicked

\* C13: a job whose Result is FAILED with a challenge detected was handed
\* to processJob once and is completed: the queue does not retry it.
CaptchaJobNotRetried ==
  job.returned.submission.hasCaptcha =>
    /\ job.returned.status = "FAILED"
    /\ job.state = "completed"
    /\ job.executions = 1
    /\ job.attemptsMade = 0

WitnessCaptchaJobNotRetried ==
  /\ job.state = "completed"
  /\ job.returned.status = "FAILED"
  /\ job.returned.submission.hasCaptcha
  /\ job.executions = 1

\* C14: a job whose Result is FAILED without a challenge (filling or the
\* submit click failed) is retried until an attempt does not fail or the
\* `attempts` attempts are used up: when it is at rest with such a Result,
\* it was handed to processJob `attempts` times.
FailedSubmissionRetried ==
  /\ job.state \in {"completed", "failed"}
  /\ job.returned.status = "FAILED"
  /\ ~job.returned.submission.hasCaptcha
  => job.executions = attempts

\* C15: the in-flight Target's page is closed before the browser is, and
\* the browser is closed before the worker process exits.
ShutdownOrdered ==
  /\ browser = "closed" => page # "open"
  /\ exitCode # "running" => browser # "open" /\ page # "open"

\* C16: processCompanies runs the companies one at a time in input order,
\* whatever the status of the earlier ones, and returns one Result per
\* company in that order; it rejects only when init failed, before any
\* company was processed.
InOrderOneResultEach ==
  /\ batchPc \in {"loop", "finally", "returned"} =>
       /\ Len(batchResults) = index
       /\ runs = index + (IF pc = "idle" THEN 0 ELSE 1)
       /\ \A k \in 1..Len(batchResults) :
            /\ batchResults[k].id = companies[k].id
            /\ batchResults[k].status \in Statuses
            /\ simplifiedResult(batchResults[k]) = results[k]
       /\ pc # "idle" => company = companies[index + 1]
  /\ batchPc \in {"finally", "returned"} => Len(batchResults) = Len(companies)
  /\ batchPc \in {"finallyThrown", "rejected"} => runs = 0

WitnessInOrderOneResultEach ==
  /\ batchPc = "returned"
  /\ Len(companies) = MaxBatch
  /\ companies[1].id # companies[2].id
  /\ batchResults[1].status = "ERROR"
  /\ batchResults[2].status = "SUCCESS"

NormalizeNeverRaises ==
  once # Unset =>
    /\ once # InvalidUrl
    /\ once = Null \/ StartsWithScheme(once)
    /\ IsFalsy(input) \/ Trim(input) = <<>> => once = Null
    /\ (\E i \in 1..Len(Trim(input)) : Trim(input)[i] = SP)
         /\ (\A i \in 1..Len(input) : input[i] \in {SP, "Acme", "acme.test"})
         => once = Null
    /\ once # Null /\ (\A i \in 1..Len(input) : input[i] # HTTPS) =>
         once[1] = HTTPS
    /\ input = <<"acme.test">> => once = <<HTTPS, "acme.test", "/">>

WitnessNormalizeNeverRaises ==
  /\ input = <<"Acme", SP, "acme.test">>
  /\ once = Null

\* C19: detectFieldType gives each field one type of the enumeration: the
\* first group, in the order of FieldGroups, whose test matches the field,
\* and text when none does; a second call gives the same type; a field
\* named user_email is email and a field named tel_number is phone.
FieldTypeByPriority ==
  categorized # NoForm =>
    /\ \A i \in DOMAIN form.inputs :
         LET field == form.inputs[i]
             t == categorized.inputs[i].fieldType
             Test(g) ==
               \/ Matches(field, g)
               \/ g = "email" /\ field.type = "email"
               \/ g = "phone" /\ field.type = "tel"
               \/ g = "website" /\ field.type = "url"
               \/ g = "message" /\ field.tagName = "textarea"
             hits == { k \in DOMAIN FieldGroups : Test(FieldGroups[k]) }
         IN /\ t \in FieldTypes
            /\ hits = {} => t = "text"
            /\ hits # {} =>
                 t = FieldGroups[CHOOSE k \in hits : \A h \in hits : k <= h]
            /\ field.name = "user_email" => t = "email"
            /\ field.name = "tel_number" /\ ~Test("email") => t = "phone"
    /\ again # NoForm => again.inputs = categorized.inputs

WitnessFieldTypeByPriority ==
  /\ again # NoForm
  /\ Len(form.inputs) >= 1
  /\ form.inputs[1].name = "message_title"
  /\ form.inputs[1].tagName = "textarea"
  /\ categorized.inputs[1].fieldType = "jobtitle"

EmailFieldRaisesScore ==
  extended # NoForm =>
    /\ Len(extended.inputs) = Len(categorized.inputs) + 1
    /\ extended.submitButtons = categorized.submitButtons
    /\ extended.score > categorized.score
    /\ Len(categorized.inputs) \in {0, 1} => extended.score >= categorized.score + 40
    /\ Len(categorized.inputs) = 25 => extended.score = categorized.score + 10

WitnessEmailFieldRaisesScore ==
  /\ extended # NoForm
  /\ Len(categorized.inputs) = 25
  /\ some(categorized.inputs, {"message"})
  /\ extended.score = categorized.score + 10

\* C22: the form reported is the top-scored form when its score is at
\* least 30; otherwise the first form, by falling score, that has an email
\* field, a message field and a submit control; otherwise none. A page with
\* a form that has an email field, a message field and a submit control
\* always gets a form reported.
SelectionFollowsRule ==
  Selected =>
    LET scores == { analyzed[i].score : i \in DOMAIN analyzed }
        tops == { f \in { analyzed[i] : i \in DOMAIN analyzed } :
                    \A x \in scores : f.score >= x }
        full == { i \in DOMAIN analyzed : HasEmailMessageSubmit(analyzed[i]) }
    IN /\ { analyzed[i].index : i \in DOMAIN analyzed }
            = { forms[i].index : i \in DOMAIN forms }
       /\ \A i \in DOMAIN analyzed :
            analyzed[i] = categorizeForm(forms[analyzed[i].index + 1])
       /\ IF \E f \in tops : f.score >= 30
          THEN best \in tops
          ELSE IF full # {}
          THEN /\ best \in { analyzed[i] : i \in full }
               /\ \A i \in full : best.score >= analyzed[i].score
          ELSE best = NoBest
       /\ full # {} => best # NoBest

WitnessSelectionFollowsRule ==
  /\ via = "threshold"
  /\ Len(forms) = 3
  /\ HasEmailMessageSubmit(best)
  /\ best.index = 2
  /\ best.score = 75

\* C23: when a form is reported, no form of the page has a strictly higher
\* score.
BestHasTopScore ==
  Selected /\ best # NoBest =>
    \A i \in DOMAIN forms : categorizeForm(forms[i]).score <= best.score

WitnessBestHasTopScore ==
  /\ Selected
  /\ best # NoBest
  /\ Len(forms) = 3
  /\ best.index = 1
  /\ categorizeForm(forms[1]).score < best.score
  /\ categorizeForm(forms[3]).score = best.score

\* C28 as stated: there is a page for which the fallback return gives a
\* form that is not the top-scored one.
FallbackPicksOther ==
  <>(via = "fallback" /\ best # NoBest /\ best # analyzed[1])

\* C28, amended: the fallback return is never taken. A form with an email
\* field, a message field and a submit control scores at least 75, so when
\* the top score is below 30 the page has no such form and no form is
\* reported; every reported form is the top form.
FallbackNeverTaken ==
  /\ via # "fallback"
  /\ \A i \in DOMAIN forms :
       HasEmailMessageSubmit(categorizeForm(forms[i]))
         => categorizeForm(forms[i]).score >= 75
  /\ via = "none suitable" =>
       \A i \in DOMAIN analyzed : ~HasEmailMessageSubmit(analyzed[i])
  /\ via = "threshold" => best = analyzed[1]

WitnessFallbackNeverTaken ==
  /\ via = "none suitable"
  /\ Len(forms) = 2
  /\ analyzed[1].score = 20
  /\ some(analyzed[1].inputs, {"email"})
  /\ some(analyzed[2].inputs, {"message"})
  /\ best = NoBest

\* C24: after saveResult for a Result, the Result is in the batch file and
\* result.sqlite holds a row with its id, so that recordExists answers yes
\* for that id.
SavedInFileAndDatabase ==
  lastSaved # 0 =>
    /\ \E i \in DOMAIN batchFile : batchFile[i].id = lastSaved
    /\ lastSaved \in rows
    /\ existsAnswer # "no"

\* C25: every message that arrives in the mailbox after start-up is
\* eventually a row of the emails table, whatever fails on the poll that
\* first sees it.
ArrivedEventuallyStored ==
  \A m \in 1..MaxMail :
    (mailbox >= m /\ m > atStart) ~> (\E k \in DOMAIN emails : emails[k] = m)

\* C27: while processCompany runs, the page allocated at its start is the
\* only page open for the Target: no stage opens or closes a page of its
\* own.
SinglePagePerTarget ==
  /\ searchPage = "null"
  /\ ~(page = "open" /\ searchPage = "open")

\* C26: the stages of one Target run one after the other: the locator is
\* called only after the probe answered, the analyzer only with a contact
\* URL, the submitter only after the analyzer; while a stage runs no later
\* stage has been called; and once a Result has been saved, or an error is
\* on its way to the catch block, no stage is called any more.
StagesSequential ==
  /\ [](/\ "locator" \in stages => probeMessage = "ok"
        /\ "analyzer" \in stages =>
             /\ probeMessage = "ok"
             /\ contactFormUrl # Null
             /\ analyzedUrl = contactFormUrl
        /\ "submitter" \in stages => "analyzer" \in stages
        /\ pc \in {"newPage", "detect", "probe"} => stages = {}
        /\ pc = "locate" => stages = {"locator"}
        /\ pc = "analyze" => "submitter" \notin stages
        /\ saves > 0 => pc \in {"finally", "done"})
  /\ [][(pc \in {"catch", "finally", "done"} /\ runs' = runs)
         => (stages' = stages)]_vars

WitnessStagesSequential ==
  /\ pc = "done"
  /\ stages = {"locator", "analyzer", "submitter"}
  /\ ret.status = "SUCCESS"

\* C29: findContactPage runs link analysis first and returns its link when
\* there is one; it probes paths only when link analysis returned nothing,
\* in the order of the list, each at origin + path; it returns the first
\* URL that answers 200 and probes nothing after it; a probe that fails or
\* throws is followed by the next path; it returns nothing only when link
\* analysis and all the paths failed.
StrategiesInOrder ==
  /\ finderPc = "links" => probed = <<>>
  /\ probed # <<>> => byLinks = Null
  /\ \A k \in DOMAIN probed :
       probed[k] = UrlOrigin(finderHome) \o << commonPaths[k] >>
  /\ lastAnswer = "200" => finderPc = "done"
  /\ finderPc = "done" =>
       /\ byLinks # Null => contactPage = byLinks /\ probed = <<>>
       /\ byLinks = Null /\ contactPage # Null =>
            /\ lastAnswer = "200"
            /\ contactPage = probed[Len(probed)]
       /\ contactPage = Null =>
            /\ byLinks = Null
            /\ Len(probed) = Len(commonPaths)
            /\ lastAnswer # "200"

WitnessStrategiesInOrder ==
  /\ finderPc = "done"
  /\ threw
  /\ Len(probed) = 5
  /\ contactPage = << HTTPS, "acme.test", "/contact" >>

\* C30: link analysis returns the href of the first link, in document
\* order, whose text (textContent, span text, aria-label, lower-cased)
\* includes a contact keyword and no exclusion keyword; never the href of a
\* link whose text includes an exclusion keyword; and nothing when no link
\* qualifies or the homepage does not load.
FirstNetMatch ==
  finderPc # "links" =>
    LET texts(i) ==
          { toLowerCase(anchors[i].textContent), toLowerCase(anchors[i].spans),
            toLowerCase(anchors[i].ariaLabel) }
        net == { i \in DOMAIN anchors :
                   /\ \E t \in texts(i) : includesContactKeyword(t)
                   /\ \A t \in texts(i) : ~includesExcludeKeyword(t) }
    IN /\ net = {} => byLinks = Null
       /\ byLinks # Null =>
            \E i \in net : /\ byLinks = anchors[i].href
                           /\ \A j \in net : i <= j
       /\ \A i \in DOMAIN anchors \ net : byLinks # anchors[i].href
       /\ finderPc = "direct" => byLinks = Null

WitnessFirstNetMatch ==
  /\ finderPc = "done"
  /\ Len(anchors) = 3
  /\ anchors[1].textContent = "Press contact"
  /\ anchors[2].ariaLabel = "Support"
  /\ anchors[3].ariaLabel = "Contact"
  /\ byLinks = HrefAt(3)

\* The place of a strategy in fillFormFields' chain
strategyRank(by) == CASE by = "id" -> 1 [] by = "name" -> 2 [] OTHER -> 3

\* C31: for each field that is no checkbox or radio button, fillFormFields
\* tries fill by id, then by name, then by the generic selector, stops at the
\* first strategy that succeeds and counts the field at most once; a field
\* that could not be filled is followed by the next one; so filledCount lies
\* between 0 and totalFields, and success is reported exactly when
\* filledCount is positive.
FillChainInOrder ==
  /\ \A j \in DOMAIN tried : \A k \in DOMAIN tried :
       j < k => strategyRank(tried[j].by) < strategyRank(tried[k].by) /\ ~tried[j].ok
  /\ fillPc = "count" =>
       LET in == fillInputs[fillI]
           Tried(by) == \E j \in DOMAIN tried : tried[j].by = by
           Ok(by) == \E j \in DOMAIN tried : tried[j].by = by /\ tried[j].ok
       IN /\ in.type \notin {"checkbox", "radio"}
          /\ Tried("id") = (in.id # "")
          /\ Tried("name") = (in.name # "" /\ ~Ok("id"))
          /\ Tried("selector") = (~Ok("id") /\ ~Ok("name"))
          /\ filled = (Ok("id") \/ Ok("name") \/ Ok("selector"))
  /\ filledCount >= 0
  /\ fillPc # "idle" => filledCount <= fillI - 1
  /\ Len(written) = filledCount
  /\ fillPc = "done" =>
       /\ fillI = Len(fillInputs) + 1
       /\ fillResults.totalFields = Len(fillInputs)
       /\ fillResults.filledCount = filledCount
       /\ filledCount <= fillResults.totalFields
       /\ fillResults.success = (filledCount > 0)

\* The first field could not be filled by any strategy, and the second was
\* filled and counted
WitnessFillChainInOrder ==
  /\ fillPc = "done"
  /\ Len(fillInputs) = 2
  /\ fillInputs[1].type = "text"
  /\ filledCount = 1
  /\ written = << fillInputs[2].el >>

\* C39: each counted fill of one fillFormFields run types into a control of
\* the candidate form that no earlier counted fill of the run typed into, so
\* that filledCount is the number of the form's controls that hold a test
\* value when the fill step returns.
FillsAreDistinct ==
  /\ \A j \in DOMAIN written : \A k \in DOMAIN written :
       j # k => written[j] # written[k]
  /\ \A j \in DOMAIN written : dom[written[j]].owner = "form"
  /\ fillPc = "done" =>
       filledCount =
         Cardinality({ k \in DOMAIN dom : dom[k].owner = "form" /\ dom[k].value # "" })

ClickFirstEnabledMatch ==
  /\ \A j \in DOMAIN clickedEls : ~clickables[clickedEls[j]].disabled
  /\ Len(clickedEls) <= 1
  /\ \A j \in DOMAIN scans :
       scans[j] = << "id", "inputs", "buttons", "all" >>[j]
  /\ (clickedEls # <<>> /\ scans[Len(scans)] # "id") =>
       LET k == clickedEls[1]
           kinds == CASE scans[Len(scans)] = "inputs" -> {"input-submit"}
                      [] scans[Len(scans)] = "buttons" -> {"button-submit"}
                      [] OTHER -> {"button-submit", "button", "input-button"}
       IN /\ isSubmitButton(clickables[k])
          /\ clickables[k].kind \in kinds
          /\ \A j \in 1..(k - 1) :
               ~(/\ clickables[j].kind \in kinds
                 /\ ~clickables[j].disabled
                 /\ isSubmitButton(clickables[j]))
  /\ (clickPc = "done" /\ clickedEls = <<>>) =>
       /\ ~submitAnswer.success
       /\ ~submitAnswer.hasCaptcha
       /\ submitAnswer.error # ""
       /\ submitAnswer.error # "CAPTCHA detected"
  /\ (clickPc = "done" /\ clickedEls # <<>>) => submitAnswer.success

\* A disabled button with a submit keyword was passed over and the enabled
\* one after it clicked
WitnessClickFirstEnabledMatch ==
  /\ clickPc = "done"
  /\ Len(clickables) = 2
  /\ clickables[1].disabled
  /\ isSubmitButton(clickables[1])
  /\ clickables[1].kind = "input-submit"
  /\ clickedEls = << 2 >>

\* C40: every control clickSubmitButton clicks is one of the submit controls
\* of the candidate form (formData.submitButtons); a button outside that
\* form is never clicked.
ClicksCandidateButton ==
  \A j \in DOMAIN clickedEls :
    \E b \in DOMAIN candidateButtons : candidateButtons[b].el = clickedEls[j]

\* C34: after a submit click, successDetected is true exactly when the
\* final URL differs from the URL the page had just before the submit, or
\* the page holds a success phrase, or the final URL holds a thank-you
\* substring; it is false when the page stayed where it was and shows
\* neither, even if loading the contact URL was redirected.
SuccessDetectedIffSignal ==
  outcomePc = "done" =>
    (detected = (finalUrl # preUrl \/ successPhrase \/ isThankYouPage(finalUrl)))

\* C35: with several processJob calls in flight, processCompany is invoked
\* only on a processor whose browser has been launched: a job that arrives
\* while init() is in flight, or after an init() that failed, never gets
\* an ERROR Result for want of a browser.
ProcessedOnlyAfterLaunch ==
  \A j \in 1..MaxJobs :
    /\ startedWith[j] \in {"none", "open"}
    /\ jobPc[j] # "error"

\* C36: no update to the dedup tracker is lost: whatever the interleaving of
\* saveProcessedCompany calls on one tracker file, once every call has
\* completed the file holds an entry for every Target id that was saved,
\* with its latest status.
NoTrackerUpdateLost ==
  pendingSaves = {} =>
    \A i \in DOMAIN savedStatus :
      \E k \in DOMAIN trackerFile :
        trackerFile[k].id = i /\ trackerFile[k].status = savedStatus[i]

\* C37: logResult is an atomic upsert: whatever the interleaving of
\* logResult calls for one Target id, every call completes without error,
\* and once they have all returned the results table holds one row for
\* that id, with the values of the call that returned last.
UpsertIsAtomic ==
  /\ \A c \in 1..MaxCalls : logCalls[c].pc # "threw"
  /\ (\A c \in 1..MaxCalls : logCalls[c].pc \in {"idle", "done"}) =>
       \A k \in DOMAIN finishedLogs :
         LET c == finishedLogs[k]
         IN (\A j \in DOMAIN finishedLogs :
               j > k => logCalls[finishedLogs[j]].id # logCalls[c].id) =>
            /\ logCalls[c].id \in DOMAIN tableRows
            /\ tableRows[logCalls[c].id] = logCalls[c].status

\* ------------------------------------------------ mailTool: overlapping polls
\* setInterval(checkEmails, 30000) starts a run every 30 seconds whether or
\* not the run before it has returned. The run of the next tick: connect,
\* auth and stat answer; the loop's start is read from the shared
\* lastEmailCount. (A server that refuses a second session while the first
\* holds the maildrop makes the run end in its outer catch with nothing
\* changed: a stuttering step.)
CheckEmailsOverlapping ==
  /\ overlapPc = "idle"
  /\ overlapCount' = mailbox
  /\ IF mailbox > lastEmailCount
     THEN overlapPc' = "loop" /\ overlapI' = lastEmailCount + 1
     ELSE overlapPc' = "idle" /\ overlapI' = overlapI
  /\ UNCHANGED << exceptOverlap >>

\* Its loop body: retr, simpleParser and saveEmailToDatabase (a plain
\* INSERT into a table with no UNIQUE column) resolve
RetrieveOverlapping ==
  /\ overlapPc = "loop"
  /\ overlapI <= overlapCount
  /\ emails' = Append(emails, overlapI)
  /\ overlapI' = overlapI + 1
  /\ UNCHANGED << pipeline, browser, batch, worker, urlCalls, formCalls,
                  selection, storage, finder, fill, consent, click,
                  detection, sharing, tracking, upsert, mailbox, atStart,
                  lastEmailCount, pollPc, emailCount, pollI, overlapPc,
                  overlapCount >>

\* Its loop body rejects, the inner catch logs it
RetrieveOverlappingFails ==
  /\ overlapPc = "loop"
  /\ overlapI <= overlapCount
  /\ overlapI' = overlapI + 1
  /\ UNCHANGED << exceptOverlap, overlapPc, overlapCount >>

\* After its loop: lastEmailCount = emailCount; pop3.close()
DisconnectOverlapping ==
  /\ overlapPc = "loop"
  /\ overlapI > overlapCount
  /\ lastEmailCount' = overlapCount
  /\ overlapPc' = "idle"
  /\ UNCHANGED << pipeline, browser, batch, worker, urlCalls, formCalls,
                  selection, storage, finder, fill, consent, click,
                  detection, sharing, tracking, upsert, mailbox, atStart,
                  emails, pollPc, emailCount, pollI, overlapCount,
                  overlapI >>

NextOverlap ==
  \/ Arrive
  \/ CheckEmails
  \/ Retrieve
  \/ RetrieveFails
  \/ Disconnect
  \/ CheckEmailsOverlapping
  \/ RetrieveOverlapping
  \/ RetrieveOverlappingFails
  \/ DisconnectOverlapping

SpecOverlap == InitMail /\ [][NextOverlap]_vars

\* C38: the reply-email poller persists each mailbox message at most once:
\* no message number is saved twice, also when a poll outlasts the interval
\* and two checkEmails runs overlap, both reading lastEmailCount before
\* either updates it.
SavedAtMostOnce ==
  \A j, k \in DOMAIN emails : j # k => emails[j] # emails[k]

====
